---- MODULE Spec2Model ----
(***************************************************************************)
(* Physical-device selection and start-up of the Vulkan tutorial programs. *)
(*                                                                         *)
(*   vkContext (triangle, triangle2, vulkan7):                             *)
(*       getPhysicalDevice / checkDeviceSuitable / getQueueFamilies /      *)
(*       checkDeviceExtensionSupport / getSwapChainDetails                 *)
(*       initContext and its steps, draw, cleanupContext                   *)
(*       createShaderModule / createGraphicsPipeline and the objects       *)
(*       created and destroyed                                             *)
(*       chooseSupportedFormat, createTexture, createMeshModel,            *)
(*       recordcommands (vulkan7)                                          *)
(*   vkCtx (chap01/module1):                                               *)
(*       init / findSuitableDevice, main                                   *)
(*   CLogger (chap01/module1):                                             *)
(*       setLevel / regOutDevice / outMsg                                  *)
(*                                                                         *)
(* C++ vectors are modelled as functions over 0 .. n-1 so that indices     *)
(* keep the values they have in the source.  C strings are sequences of    *)
(* character codes.                                                        *)
(***************************************************************************)
EXTENDS Integers, Sequences, FiniteSets, TLC

VARIABLES
    variant,            \* which tutorial stage's vkContext is running
    deviceList,         \* what vkEnumeratePhysicalDevices reports (vkContext)
    m_device_physical,  \* vkContext::m_device.physical
    pc,                 \* position of vkContext::initContext
    thrown,             \* what() of the runtime_error thrown, "" if none
    call,               \* the last capability probe invoked and what it returned
    m_physicalDevices,  \* vkCtx::m_physicalDevices
    properties,         \* the vkProperties handed to vkCtx::init
    device,             \* main's `device`, written through vkCtx::init's out parameter
    res,                \* VkResult returned by vkCtx::init
    canidateDevs,       \* findSuitableDevice's candidate vector
    found,              \* devices reported "[+] found a suitable device", in order
    instanceDevices,    \* what vkEnumeratePhysicalDevices reports (vkCtx)
    pcCtx,              \* position of chap01/module1 main
    m_pLogicalDevice,   \* vkCtx::m_pLogicalDevice
    surfaceCapabilities, \* what the surface of the selected device reports
    m_device_logical,   \* vkContext::m_device.logical
    deviceCreateInfo,   \* the queue families vkCreateDevice was asked queues of
    m_graphicsQueue,    \* vkContext::m_graphicsQueue
    m_presentationQueue, \* vkContext::m_presentationQueue
    swapChainCreateInfo, \* what vkCreateSwapchainKHR was called with
    m_swapChainImages,  \* vkContext::m_swapChainImages
    poolInfo,           \* what vkCreateCommandPool was called with
    m_drawFences,       \* vkContext::m_drawFences, each fence by its state
    m_currentFrame,     \* vkContext::m_currentFrame
    inFlight,           \* per swapchain image: the fence its last submission
                        \* signals, until the host has waited on that fence
    lastDraw,           \* what the last draw() did
    shaderModule,       \* the last createShaderModule call that failed, else the last one
    creationErrors,     \* the steps of initContext in which a Vulkan call reported an error
    createdObjects,     \* the Vulkan objects created, by member, in creation order
    destroyedObjects,   \* the Vulkan objects destroyed, by member, in destruction order
    m_mapCallbacks,     \* CLogger::m_mapCallbacks
    m_level,            \* CLogger::m_level
    levelSet,           \* whether setLevel has been called
    logCall,            \* the last outMsg call and the sink it invoked
    formatProperties,   \* what vkGetPhysicalDeviceFormatProperties reports, per format
    formatCall,         \* the last chooseSupportedFormat call and how it ended
    m_samplerDescriptorSets, \* vkContext::m_samplerDescriptorSets, by texture file
    m_modelList,        \* vkContext::m_modelList, each mesh by its texture id
    meshModelCall,      \* the last createMeshModel call and how it ended
    recordCall          \* the descriptor sets the last recordcommands looked up

contextVars == <<variant, deviceList, m_device_physical, pc, thrown, call>>
deviceVars == <<surfaceCapabilities, m_device_logical, deviceCreateInfo, m_graphicsQueue,
                m_presentationQueue, swapChainCreateInfo, m_swapChainImages, poolInfo,
                m_drawFences, m_currentFrame, inFlight, lastDraw>>
objVars == <<shaderModule, creationErrors, createdObjects, destroyedObjects>>
runVars == <<deviceVars, objVars>>
ctxVars == <<m_physicalDevices, properties, device, res, canidateDevs, found,
             instanceDevices, pcCtx, m_pLogicalDevice>>
logVars == <<m_mapCallbacks, m_level, levelSet, logCall>>

sceneVars == <<formatProperties, formatCall, m_samplerDescriptorSets, m_modelList,
               meshModelCall, recordCall>>

vars == <<contextVars, runVars, ctxVars, logVars, sceneVars>>

----------------------------------------------------------------------------
(* Bounds of the model *)

MaxDevices == 3
MaxFamilies == 3
MaxExtensions == 2
MaxCtxDevices == 3
MaxCtxFamilies == 2

----------------------------------------------------------------------------
(* Vectors, bit operations, C strings *)

Size(v) == Cardinality(DOMAIN v)

Vectors(S, n) == UNION {[0 .. (k - 1) -> S] : k \in 0 .. n}

push_back(v, x) == [i \in 0 .. Size(v) |-> IF i < Size(v) THEN v[i] ELSE x]

RECURSIVE BitAnd(_, _)
BitAnd(a, b) ==
    IF a = 0 \/ b = 0 THEN 0
    ELSE (a % 2) * (b % 2) + 2 * BitAnd(a \div 2, b \div 2)

RECURSIVE strncmp_prefix(_, _)
strncmp_prefix(s1, s2) ==
    IF s1 = <<>> THEN 0
    ELSE IF s2 = <<>> THEN 1
    ELSE IF Head(s1) # Head(s2) THEN Head(s1) - Head(s2)
    ELSE strncmp_prefix(Tail(s1), Tail(s2))

RECURSIVE strcmp(_, _)
strcmp(s1, s2) ==
    IF s1 = <<>> /\ s2 = <<>> THEN 0
    ELSE IF s1 = <<>> THEN -1
    ELSE IF s2 = <<>> THEN 1
    ELSE IF Head(s1) # Head(s2) THEN Head(s1) - Head(s2)
    ELSE strcmp(Tail(s1), Tail(s2))

----------------------------------------------------------------------------
(* Vulkan values the code tests *)

VK_QUEUE_GRAPHICS_BIT == 1
VK_QUEUE_COMPUTE_BIT == 2
VK_QUEUE_TRANSFER_BIT == 4

VK_PHYSICAL_DEVICE_TYPE_OTHER == 0
VK_PHYSICAL_DEVICE_TYPE_INTEGRATED_GPU == 1
VK_PHYSICAL_DEVICE_TYPE_DISCRETE_GPU == 2
VK_PHYSICAL_DEVICE_TYPE_VIRTUAL_GPU == 3
VK_PHYSICAL_DEVICE_TYPE_CPU == 4

\* "VK_KHR_swapchain"
VK_KHR_SWAPCHAIN_EXTENSION_NAME ==
    <<86, 75, 95, 75, 72, 82, 95, 115, 119, 97, 112, 99, 104, 97, 105, 110>>

deviceExtensions == [i \in 0 .. 0 |-> VK_KHR_SWAPCHAIN_EXTENSION_NAME]

nullptr == 0

\* the opaque VkPhysicalDevice handle of the device enumerated at index i
Handle(i) == i + 1

----------------------------------------------------------------------------
(* queueFamilyIndices (utilities.h) *)

queueFamilyIndices == [graphicsFamily |-> -1, presentationFamily |-> -1]

isValid(ind) == (ind.graphicsFamily >= 0) /\ (ind.presentationFamily >= 0)

----------------------------------------------------------------------------
(* vkContext::getQueueFamilies: the scan over the queue families of dev.   *)
(* Returns the indices, the value of i when the loop is left, and whether  *)
(* it was left through the break.                                          *)

RECURSIVE getQueueFamiliesFirst(_, _, _)
getQueueFamiliesFirst(queueFamilyList, i, indices) ==
    IF i >= Size(queueFamilyList)
    THEN [indices |-> indices, i |-> i, broke |-> FALSE]
    ELSE LET queueFamily == queueFamilyList[i]
             g == IF indices.graphicsFamily < 0
                     /\ (queueFamily.queueCount > 0)
                     /\ BitAnd(queueFamily.queueFlags, VK_QUEUE_GRAPHICS_BIT) # 0
                  THEN i ELSE indices.graphicsFamily
             p == IF indices.presentationFamily < 0
                     /\ (queueFamily.queueCount > 0)
                     /\ queueFamily.presentationSupport
                  THEN i ELSE indices.presentationFamily
             next == [graphicsFamily |-> g, presentationFamily |-> p]
         IN  IF isValid(next)
             THEN [indices |-> next, i |-> i, broke |-> TRUE]
             ELSE getQueueFamiliesFirst(queueFamilyList, i + 1, next)

RECURSIVE getQueueFamiliesNoBreak(_, _, _)
getQueueFamiliesNoBreak(queueFamilyList, i, indices) ==
    IF i >= Size(queueFamilyList)
    THEN [indices |-> indices, i |-> i, broke |-> FALSE]
    ELSE LET queueFamily == queueFamilyList[i]
             g == IF (queueFamily.queueCount > 0)
                     /\ BitAnd(queueFamily.queueFlags, VK_QUEUE_GRAPHICS_BIT) # 0
                  THEN i ELSE indices.graphicsFamily
             p == IF (queueFamily.queueCount > 0) /\ queueFamily.presentationSupport
                  THEN i ELSE indices.presentationFamily
         IN  getQueueFamiliesNoBreak(queueFamilyList, i + 1,
                                     [graphicsFamily |-> g, presentationFamily |-> p])

RECURSIVE getQueueFamiliesLoop(_, _, _)
getQueueFamiliesLoop(queueFamilyList, i, indices) ==
    IF i >= Size(queueFamilyList)
    THEN [indices |-> indices, i |-> i, broke |-> FALSE]
    ELSE LET queueFamily == queueFamilyList[i]
             g == IF (queueFamily.queueCount > 0)
                     /\ BitAnd(queueFamily.queueFlags, VK_QUEUE_GRAPHICS_BIT) # 0
                  THEN i ELSE indices.graphicsFamily
             p == IF (queueFamily.queueCount > 0) /\ queueFamily.presentationSupport
                  THEN i ELSE indices.presentationFamily
             next == [graphicsFamily |-> g, presentationFamily |-> p]
         IN  IF isValid(next)
             THEN [indices |-> next, i |-> i, broke |-> TRUE]
             ELSE getQueueFamiliesLoop(queueFamilyList, i + 1, next)

getQueueFamilies(dev) == getQueueFamiliesLoop(dev.queueFamilyList, 0, queueFamilyIndices)

----------------------------------------------------------------------------
(* vkContext::checkDeviceExtensionSupport *)

hasExtension(deviceExtension, extensions) ==
    \E k \in DOMAIN extensions : strcmp(deviceExtension, extensions[k]) = 0

checkDeviceExtensionSupport(dev) ==
    IF Size(dev.extensions) = 0 THEN FALSE
    ELSE \A r \in DOMAIN deviceExtensions : hasExtension(deviceExtensions[r], dev.extensions)

----------------------------------------------------------------------------
(* vkContext::getSwapChainDetails: the two lists, by their lengths *)

getSwapChainDetails(dev) ==
    [formats |-> IF dev.formatCount # 0 THEN dev.formatCount ELSE 0,
     presentationModes |-> IF dev.presentationCnt # 0 THEN dev.presentationCnt ELSE 0]

----------------------------------------------------------------------------
(* vkContext::checkDeviceSuitable, with its locals *)

checkDeviceSuitableNoSwapChain(v, dev) ==
    LET indices == getQueueFamilies(dev).indices
        extensionsSupported == checkDeviceExtensionSupport(dev)
    IN  [indicesValid |-> isValid(indices),
         extensionsSupported |-> extensionsSupported,
         swapChainValid |-> extensionsSupported,
         ret |-> isValid(indices) /\ extensionsSupported
                 /\ (v = "vulkan7" => dev.samplerAnisotropy)]

checkDeviceSuitableNoExtensions(v, dev) ==
    LET indices == getQueueFamilies(dev).indices
        extensionsSupported == checkDeviceExtensionSupport(dev)
        swapChainDetails == getSwapChainDetails(dev)
        swapChainValid == (swapChainDetails.presentationModes # 0)
                          /\ (swapChainDetails.formats # 0)
    IN  [indicesValid |-> isValid(indices),
         extensionsSupported |-> extensionsSupported,
         swapChainValid |-> swapChainValid /\ extensionsSupported,
         ret |-> isValid(indices) /\ swapChainValid
                 /\ (v = "vulkan7" => dev.samplerAnisotropy)]

checkDeviceSuitableRejectOther(v, dev) ==
    LET indices == getQueueFamilies(dev).indices
        extensionsSupported == checkDeviceExtensionSupport(dev)
        swapChainDetails == getSwapChainDetails(dev)
        swapChainValid == IF extensionsSupported
                          THEN (swapChainDetails.presentationModes # 0)
                               /\ (swapChainDetails.formats # 0)
                          ELSE FALSE
    IN  [indicesValid |-> isValid(indices),
         extensionsSupported |-> extensionsSupported,
         swapChainValid |-> swapChainValid,
         ret |-> (dev.deviceType # VK_PHYSICAL_DEVICE_TYPE_OTHER)
                 /\ isValid(indices) /\ extensionsSupported /\ swapChainValid
                 /\ (v = "vulkan7" => dev.samplerAnisotropy)]

checkDeviceSuitable(v, dev) ==
    LET indices == getQueueFamilies(dev).indices
        extensionsSupported == checkDeviceExtensionSupport(dev)
        swapChainDetails == getSwapChainDetails(dev)
        swapChainValid == IF extensionsSupported
                          THEN (swapChainDetails.presentationModes # 0)
                               /\ (swapChainDetails.formats # 0)
                          ELSE FALSE
    IN  [indicesValid |-> isValid(indices),
         extensionsSupported |-> extensionsSupported,
         swapChainValid |-> swapChainValid,
         ret |-> isValid(indices) /\ extensionsSupported /\ swapChainValid
                 /\ (v = "vulkan7" => dev.samplerAnisotropy)]

----------------------------------------------------------------------------
(* vkContext::getPhysicalDevice: the loop over deviceList *)

RECURSIVE selectLast(_, _, _, _)
selectLast(v, list, k, physical) ==
    IF k >= Size(list) THEN physical
    ELSE selectLast(v, list, k + 1,
                    IF checkDeviceSuitable(v, list[k]).ret THEN Handle(k) ELSE physical)

RECURSIVE selectLoop(_, _, _, _)
selectLoop(v, list, k, physical) ==
    IF k >= Size(list) THEN physical
    ELSE IF checkDeviceSuitable(v, list[k]).ret THEN Handle(k)
    ELSE selectLoop(v, list, k + 1, physical)

GetPhysicalDeviceReturnsNull ==
    /\ pc = "surface"
    /\ m_device_physical' = IF Size(deviceList) = 0 THEN m_device_physical
                            ELSE selectLoop(variant, deviceList, 0, m_device_physical)
    /\ pc' = "physical"
    /\ UNCHANGED <<variant, deviceList, thrown, call>>
    /\ UNCHANGED <<runVars, ctxVars, logVars, sceneVars>>

GetPhysicalDevice ==
    /\ pc = "surface"
    /\ IF Size(deviceList) = 0
       THEN /\ thrown' = "Can't find GPUs that support Vulkan Instance"
            /\ pc' = "failed"
            /\ UNCHANGED m_device_physical
       ELSE LET physical == selectLoop(variant, deviceList, 0, m_device_physical)
            IN  /\ m_device_physical' = physical
                /\ IF physical = nullptr
                   THEN /\ thrown' = "No suitalbe physical device found"
                        /\ pc' = "failed"
                   ELSE /\ pc' = "physical"
                        /\ UNCHANGED thrown
    /\ UNCHANGED <<variant, deviceList, call>>
    /\ UNCHANGED <<runVars, ctxVars, logVars, sceneVars>>

(* the capability probes, invoked on one enumerated device *)

CallGetQueueFamilies(d) ==
    /\ d \in DOMAIN deviceList
    /\ LET r == getQueueFamilies(deviceList[d])
       IN  call' = [op |-> "getQueueFamilies", dev |-> d,
                    graphicsFamily |-> r.indices.graphicsFamily,
                    presentationFamily |-> r.indices.presentationFamily,
                    i |-> r.i, broke |-> r.broke]
    /\ UNCHANGED <<variant, deviceList, m_device_physical, pc, thrown>>
    /\ UNCHANGED <<runVars, ctxVars, logVars, sceneVars>>

CallCheckDeviceExtensionSupport(d) ==
    /\ d \in DOMAIN deviceList
    /\ call' = [op |-> "checkDeviceExtensionSupport", dev |-> d,
                ret |-> checkDeviceExtensionSupport(deviceList[d])]
    /\ UNCHANGED <<variant, deviceList, m_device_physical, pc, thrown>>
    /\ UNCHANGED <<runVars, ctxVars, logVars, sceneVars>>

CallGetSwapChainDetails(d) ==
    /\ d \in DOMAIN deviceList
    /\ LET r == getSwapChainDetails(deviceList[d])
       IN  call' = [op |-> "getSwapChainDetails", dev |-> d,
                    formats |-> r.formats, presentationModes |-> r.presentationModes]
    /\ UNCHANGED <<variant, deviceList, m_device_physical, pc, thrown>>
    /\ UNCHANGED <<runVars, ctxVars, logVars, sceneVars>>

\* a checkDeviceSuitable that stores the device it was asked about
CallCheckDeviceSuitableSelects(d) ==
    /\ d \in DOMAIN deviceList
    /\ LET r == checkDeviceSuitable(variant, deviceList[d])
       IN  /\ call' = [op |-> "checkDeviceSuitable", dev |-> d,
                       indicesValid |-> r.indicesValid,
                       extensionsSupported |-> r.extensionsSupported,
                       swapChainValid |-> r.swapChainValid,
                       ret |-> r.ret]
           /\ m_device_physical' = IF r.ret THEN Handle(d) ELSE m_device_physical
    /\ UNCHANGED <<variant, deviceList, pc, thrown>>
    /\ UNCHANGED <<runVars, ctxVars, logVars, sceneVars>>

CallCheckDeviceSuitable(d) ==
    /\ d \in DOMAIN deviceList
    /\ LET r == checkDeviceSuitable(variant, deviceList[d])
       IN  call' = [op |-> "checkDeviceSuitable", dev |-> d,
                    indicesValid |-> r.indicesValid,
                    extensionsSupported |-> r.extensionsSupported,
                    swapChainValid |-> r.swapChainValid,
                    ret |-> r.ret]
    /\ UNCHANGED <<variant, deviceList, m_device_physical, pc, thrown>>
    /\ UNCHANGED <<runVars, ctxVars, logVars, sceneVars>>

----------------------------------------------------------------------------
(* vkCtx::findSuitableDevice (chap01/module1) *)

\* uint32_t values are written as the signed 32-bit number with the same bit
\* pattern: `uint32_t nRet = -1` is 0xFFFFFFFF, written -1, and is equal to
\* the -1 that init compares it with after the usual conversion
UINT32_MINUS_ONE == -1

VK_SUCCESS == 0
VK_ERROR_INITIALIZATION_FAILED == -3
VK_ERROR_INCOMPATIBLE_DRIVER == -9

\* first loop: which devices are pushed onto canidateDevs
typeMatchGeneric(deviceType, devProp) ==
    IF BitAnd(devProp, deviceType) = deviceType THEN 1 ELSE 0

typeMatchDiscreteAlways(deviceType, devProp) ==
    IF deviceType = VK_PHYSICAL_DEVICE_TYPE_OTHER THEN 0
    ELSE (IF (deviceType = VK_PHYSICAL_DEVICE_TYPE_INTEGRATED_GPU)
             /\ BitAnd(devProp, VK_PHYSICAL_DEVICE_TYPE_INTEGRATED_GPU) # 0 THEN 1 ELSE 0)
       + (IF (deviceType = VK_PHYSICAL_DEVICE_TYPE_DISCRETE_GPU) THEN 1 ELSE 0)
       + (IF (deviceType = VK_PHYSICAL_DEVICE_TYPE_VIRTUAL_GPU)
             /\ BitAnd(devProp, VK_PHYSICAL_DEVICE_TYPE_VIRTUAL_GPU) # 0 THEN 1 ELSE 0)
       + (IF (deviceType = VK_PHYSICAL_DEVICE_TYPE_CPU)
             /\ BitAnd(devProp, VK_PHYSICAL_DEVICE_TYPE_CPU) # 0 THEN 1 ELSE 0)

\* the number of push_back calls one iteration of the first loop makes
typeMatch(deviceType, devProp) ==
    IF deviceType = VK_PHYSICAL_DEVICE_TYPE_OTHER THEN 0
    ELSE (IF (deviceType = VK_PHYSICAL_DEVICE_TYPE_INTEGRATED_GPU)
             /\ BitAnd(devProp, VK_PHYSICAL_DEVICE_TYPE_INTEGRATED_GPU) # 0 THEN 1 ELSE 0)
       + (IF (deviceType = VK_PHYSICAL_DEVICE_TYPE_DISCRETE_GPU)
             /\ BitAnd(devProp, VK_PHYSICAL_DEVICE_TYPE_DISCRETE_GPU) # 0 THEN 1 ELSE 0)
       + (IF (deviceType = VK_PHYSICAL_DEVICE_TYPE_VIRTUAL_GPU)
             /\ BitAnd(devProp, VK_PHYSICAL_DEVICE_TYPE_VIRTUAL_GPU) # 0 THEN 1 ELSE 0)
       + (IF (deviceType = VK_PHYSICAL_DEVICE_TYPE_CPU)
             /\ BitAnd(devProp, VK_PHYSICAL_DEVICE_TYPE_CPU) # 0 THEN 1 ELSE 0)

RECURSIVE pushTimes(_, _, _)
pushTimes(v, x, n) == IF n = 0 THEN v ELSE pushTimes(push_back(v, x), x, n - 1)

RECURSIVE typeLoop(_, _, _, _)
typeLoop(devs, devProp, nDev, cand) ==
    IF nDev >= Size(devs) THEN cand
    ELSE typeLoop(devs, devProp, nDev + 1,
                  pushTimes(cand, nDev, typeMatch(devs[nDev].deviceType, devProp)))

\* inner loop of the second loop: does some queue family carry every requested bit
queueMatchAny(queueProperties, devOps) ==
    \E q \in DOMAIN queueProperties : BitAnd(queueProperties[q].queueFlags, devOps) # 0

queueMatch(queueProperties, devOps) ==
    \E q \in DOMAIN queueProperties : BitAnd(queueProperties[q].queueFlags, devOps) = devOps

\* second loop: every matching candidate overwrites nRet and is reported
RECURSIVE opsLoopFirst(_, _, _, _, _)
opsLoopFirst(devs, devOps, cand, c, acc) ==
    IF c >= Size(cand) THEN acc
    ELSE IF queueMatch(devs[cand[c]].queueProperties, devOps)
    THEN [nRet |-> cand[c], found |-> push_back(acc.found, cand[c])]
    ELSE opsLoopFirst(devs, devOps, cand, c + 1, acc)

RECURSIVE opsLoop(_, _, _, _, _)
opsLoop(devs, devOps, cand, c, acc) ==
    IF c >= Size(cand) THEN acc
    ELSE opsLoop(devs, devOps, cand, c + 1,
                 IF queueMatch(devs[cand[c]].queueProperties, devOps)
                 THEN [nRet |-> cand[c], found |-> push_back(acc.found, cand[c])]
                 ELSE acc)

findSuitableDeviceFromZero(devs, props) ==
    LET cand == typeLoop(devs, props.type, 0, <<>>)
        r == opsLoop(devs, props.ops, cand, 0, [nRet |-> 0, found |-> <<>>])
    IN  [nRet |-> r.nRet, canidateDevs |-> cand, found |-> r.found]

findSuitableDevice(devs, props) ==
    LET cand == typeLoop(devs, props.type, 0, <<>>)
        r == opsLoop(devs, props.ops, cand, 0, [nRet |-> UINT32_MINUS_ONE, found |-> <<>>])
    IN  [nRet |-> r.nRet, canidateDevs |-> cand, found |-> r.found]

(* vkCtx::init, called once from main with the requested properties *)
VkCtxInit(props, createInstance) ==
    /\ pcCtx = "constructed"
    /\ properties' = props
    /\ IF createInstance = VK_SUCCESS
       THEN LET r == findSuitableDevice(instanceDevices, props)
            IN  /\ m_physicalDevices' = instanceDevices
                /\ device' = r.nRet
                /\ canidateDevs' = r.canidateDevs
                /\ found' = r.found
                /\ res' = IF r.nRet = UINT32_MINUS_ONE
                          THEN VK_ERROR_INITIALIZATION_FAILED ELSE VK_SUCCESS
                /\ pcCtx' = IF r.nRet = UINT32_MINUS_ONE THEN "init_failed" ELSE "initialised"
       ELSE /\ res' = createInstance
            /\ pcCtx' = "init_failed"
            /\ UNCHANGED <<m_physicalDevices, device, canidateDevs, found>>
    /\ UNCHANGED <<instanceDevices, m_pLogicalDevice>>
    /\ UNCHANGED <<contextVars, runVars, logVars, sceneVars>>

(* chap01/module1 main, after a successful init: vkCtx::createLogicalDevice.
   `createdObjects` is false when the vkLogicalDevice constructor throws *)
MainCreateLogicalDeviceUnchecked(created) ==
    /\ pcCtx \in {"initialised", "init_failed"}
    /\ IF created
       THEN /\ m_pLogicalDevice' = Handle(device)
            /\ pcCtx' = "loop"
       ELSE /\ pcCtx' = "no_logical_device"
            /\ UNCHANGED m_pLogicalDevice
    /\ UNCHANGED <<m_physicalDevices, properties, device, res, canidateDevs, found,
                   instanceDevices>>
    /\ UNCHANGED <<contextVars, runVars, logVars, sceneVars>>

MainCreateLogicalDevice(created) ==
    /\ pcCtx = "initialised"
    /\ IF created
       THEN /\ m_pLogicalDevice' = Handle(device)
            /\ pcCtx' = "loop"
       ELSE /\ pcCtx' = "no_logical_device"
            /\ UNCHANGED m_pLogicalDevice
    /\ UNCHANGED <<m_physicalDevices, properties, device, res, canidateDevs, found,
                   instanceDevices>>
    /\ UNCHANGED <<contextVars, runVars, logVars, sceneVars>>

----------------------------------------------------------------------------
(* vkContext::initContext: the calls it makes, in order.  pc names the last
   call that returned; "constructed" before the first, "failed" once a call
   has thrown and initContext has returned EXIT_FAILURE *)

InitSteps(v) ==
    IF v = "triangle"
    THEN <<"instance", "debugMessenger", "surface", "physical", "logical",
           "swapChain", "renderPass", "graphicsPipeline", "framebuffers",
           "commandPool", "commandBuffers", "recorded">>
    ELSE IF v = "triangle2"
    THEN <<"instance", "debugMessenger", "surface", "physical", "logical", "mesh",
           "swapChain", "renderPass", "graphicsPipeline", "framebuffers",
           "commandPool", "commandBuffers", "recorded", "synchronisations">>
    ELSE <<"instance", "debugMessenger", "surface", "physical", "logical",
           "swapChain", "renderPass", "descriptorSetLayout", "pushConstantRange",
           "graphicsPipeline", "colourBufferImage", "depthBufferImage",
           "framebuffers", "commandPool", "commandBuffers", "textureSampler",
           "uniformBuffers", "descriptorPool", "descriptorSets",
           "inputDescriptorSets", "synchronisations", "texture">>

StepIndex(v, label) ==
    IF label = "constructed" THEN 0
    ELSE IF \E k \in 1 .. Len(InitSteps(v)) : InitSteps(v)[k] = label
    THEN CHOOSE k \in 1 .. Len(InitSteps(v)) : InitSteps(v)[k] = label
    ELSE Len(InitSteps(v))

\* the call initContext makes next, "none" when there is none
NextStep ==
    IF pc \in {"failed", "terminated", "cleaned", "idle"} THEN "none"
    ELSE IF StepIndex(variant, pc) < Len(InitSteps(variant))
    THEN InitSteps(variant)[StepIndex(variant, pc) + 1]
    ELSE "none"

\* initContext has returned EXIT_SUCCESS
Initialised == pc = InitSteps(variant)[Len(InitSteps(variant))]

\* what() of the runtime_error a call may throw
StepErrors(label) ==
    CASE label = "instance" -> {"Failed to create Vulkan Instance"}
      [] label = "debugMessenger" -> {"failed to set up debug messenger!"}
      [] label = "surface" -> {"Failed to create a rendering surface"}
      [] label = "mesh" -> {"failed to create vertex buffer",
                            "failed to allocate memory for vertex buffer"}
      [] label = "renderPass" -> {"failed to create render pass"}
      [] label = "descriptorSetLayout" -> {"failed to create descriptor set layout",
                                           "failed to create smaple description set layout",
                                           "Failed to create a Descriptor Set Layout!"}
      [] label = "pushConstantRange" -> {}
      [] label = "graphicsPipeline" -> {"Failed to open file",
                                        "Failed to create Pipeline Layout!",
                                        "Failed to create a Graphics Pipeline!"}
      [] label = "colourBufferImage" -> {"Failed to find a matching format",
                                         "Failed to create an Image!",
                                         "Failed to allocate memory for image!",
                                         "Failed to create an Image View!"}
      [] label = "depthBufferImage" -> {"Failed to find a matching format",
                                        "Failed to create an Image!",
                                        "Failed to allocate memory for image!",
                                        "Failed to create an Image View!"}
      [] label = "framebuffers" -> {"failed to create framebuffer"}
      [] label = "commandBuffers" -> {"failed to create command buffer"}
      [] label = "recorded" -> {"failed to start recording a command buffer",
                                "failed to stop recording a command buffer"}
      [] label = "textureSampler" -> {"Filed to create a Texture Sampler!"}
      [] label = "uniformBuffers" -> {"Failed to create a Vertex Buffer!",
                                      "Failed to allocate Vertex Buffer Memory!"}
      [] label = "descriptorPool" -> {"Failed to create a Descriptor Pool!"}
      [] label = "descriptorSets" -> {"Failed to allocate Descriptor Sets!"}
      [] label = "inputDescriptorSets" ->
             {"Failed to allocate Input Attachment Descriptor Sets!"}
      [] label = "texture" -> {"failed to load a texture file (plain.png)",
                               "Failed to create an Image!",
                               "Failed to create an Image View!",
                               "Failed to allocate Texture Descriptor Sets!"}
      [] OTHER -> {}

\* the members a call of initContext fills with Vulkan objects that need
\* destroying, in the order it creates them (command buffers and descriptor
\* sets go with their pool)
StepObjects(v, label) ==
    CASE label = "instance" -> <<"m_instance">>
      [] label = "debugMessenger" -> <<"m_messenger">>
      [] label = "surface" -> <<"m_surface">>
      [] label = "logical" -> <<"m_device.logical">>
      [] label = "mesh" -> <<"m_vertexBuffer", "m_vertexBufferMemory">>
      [] label = "swapChain" -> <<"m_swapchain", "m_swapChainImages.imageView">>
      [] label = "renderPass" -> <<"m_renderPass">>
      [] label = "descriptorSetLayout" ->
             <<"m_descriptorSetLayout", "m_samplerSetLayout", "m_inputSetLayout">>
      [] label = "graphicsPipeline" ->
             IF v = "vulkan7"
             THEN <<"m_pipelineLayout", "m_graphicsPipeline",
                    "m_secondPipelineLayout", "m_secondPipeline">>
             ELSE <<"m_pipelineLayout", "m_graphicsPipeline">>
      [] label = "colourBufferImage" ->
             <<"m_colourBufferImage", "m_colourBufferImageMemory",
               "m_colourBufferImageView">>
      [] label = "depthBufferImage" ->
             <<"m_depthBufferImage", "m_depthBufferImageMemory",
               "m_depthBufferImageView">>
      [] label = "framebuffers" -> <<"m_swapChainFrameBuffers">>
      [] label = "commandPool" -> <<"m_graphicsCommandPool">>
      [] label = "textureSampler" -> <<"m_textureSampler">>
      [] label = "uniformBuffers" -> <<"m_vpUniformBuffer", "m_vpUniformBufferMemory">>
      [] label = "descriptorPool" ->
             <<"m_descriptorPool", "m_samplerDescriptorPool", "m_inputDescriptorPool">>
      [] label = "synchronisations" ->
             <<"m_imageAvailable", "m_renderFinished", "m_drawFences">>
      [] label = "texture" ->
             <<"m_textureImages", "m_textureImageMemory", "m_textureImageViews">>
      [] OTHER -> <<>>

\* the objects cleanupContext destroys, in its order
CleanupObjects(v) ==
    LET common == <<"m_graphicsCommandPool", "m_swapChainFrameBuffers">>
        tail == <<"m_graphicsPipeline", "m_pipelineLayout", "m_renderPass",
                  "m_swapChainImages.imageView", "m_swapchain", "m_surface",
                  "m_device.logical", "m_messenger", "m_instance">>
        sync == <<"m_renderFinished", "m_imageAvailable", "m_drawFences">>
    IN  IF v = "triangle" THEN common \o tail
        ELSE IF v = "triangle2"
        THEN <<"m_vertexBuffer", "m_vertexBufferMemory">> \o sync \o common \o tail
        ELSE <<"m_inputDescriptorPool", "m_inputSetLayout", "m_samplerDescriptorPool",
               "m_samplerSetLayout", "m_textureSampler",
               "m_textureImageViews", "m_textureImages", "m_textureImageMemory",
               "m_depthBufferImageView", "m_depthBufferImage", "m_depthBufferImageMemory",
               "m_colourBufferImageView", "m_colourBufferImage",
               "m_colourBufferImageMemory",
               "m_descriptorPool", "m_descriptorSetLayout",
               "m_vpUniformBuffer", "m_vpUniformBufferMemory">>
             \o sync \o common
             \o <<"m_secondPipeline", "m_secondPipelineLayout">> \o tail

\* a call of initContext returned, having created objs
StepDone(objs) ==
    /\ createdObjects' = createdObjects \o objs
    /\ UNCHANGED <<shaderModule, creationErrors, destroyedObjects>>

\* a call of initContext threw after a Vulkan call reported an error,
\* having created objs before
StepThrew(label, objs) ==
    /\ createdObjects' = createdObjects \o objs
    /\ creationErrors' = creationErrors \cup {label}
    /\ UNCHANGED <<shaderModule, destroyedObjects>>

\* the calls of initContext whose effect on the context is not followed further
PlainSteps ==
    {"instance", "debugMessenger", "surface", "mesh", "renderPass",
     "descriptorSetLayout", "pushConstantRange",
     "colourBufferImage", "depthBufferImage", "framebuffers", "commandBuffers",
     "recorded", "textureSampler", "uniformBuffers", "descriptorPool",
     "descriptorSets", "inputDescriptorSets", "texture"}

(* vkContext::createShaderModule: reports a failure on std::cerr and returns
   its local VkShaderModule either way; after a failure the local was never
   written *)
ValidShaderModule == 1
StaleHandle == -1
IndeterminateHandles == {nullptr, StaleHandle}

createShaderModule(result, indeterminate) ==
    [op |-> "createShaderModule", result |-> result,
     threw |-> FALSE, returned |-> TRUE,
     shaderModule |-> IF result = VK_SUCCESS THEN ValidShaderModule ELSE indeterminate]

\* the shader modules createGraphicsPipeline builds, in call order
ShaderModules(v) ==
    IF v = "vulkan7"
    THEN <<"vertexShaderModule", "fragmentShaderModule",
           "secondVertexShaderModule", "secondFragmentShaderModule">>
    ELSE <<"vertexShaderModule", "fragmentShaderModule">>

\* how createGraphicsPipeline may end: returning, or throwing from readFile,
\* vkCreatePipelineLayout or vkCreateGraphicsPipelines of either pass
PipelineOutcomes(v) ==
    IF v = "vulkan7"
    THEN <<"file", "layout", "pipeline", "file2", "layout2", "pipeline2", "ok">>
    ELSE <<"file", "layout", "pipeline", "ok">>

PipelineError(outcome) ==
    CASE outcome \in {"file", "file2"} -> "Failed to open file"
      [] outcome = "layout" -> "Failed to create Pipeline Layout!"
      [] outcome = "layout2" -> "Failed to create a Pipeline Layout!"
      [] OTHER -> "Failed to create a Graphics Pipeline!"

\* position of an outcome in the run of createGraphicsPipeline
Reached(v, outcome) ==
    CHOOSE k \in 1 .. Len(PipelineOutcomes(v)) : PipelineOutcomes(v)[k] = outcome

\* the sequence q without its k-th element (all of q when k = 0)
Without(q, k) == [i \in 1 .. (IF k \in 1 .. Len(q) THEN Len(q) - 1 ELSE Len(q)) |->
                     IF k \in 1 .. Len(q) /\ i >= k THEN q[i + 1] ELSE q[i]]

(* vkContext::createGraphicsPipeline.  failedModule is the createShaderModule
   call whose vkCreateShaderModule fails (0: none); a pipeline built from
   the handle returned then is undefined behaviour, so any outcome may
   follow *)
CreateGraphicsPipeline(failedModule, indeterminate, outcome) ==
    /\ NextStep = "graphicsPipeline"
    /\ outcome \in {PipelineOutcomes(variant)[k] : k \in 1 .. Len(PipelineOutcomes(variant))}
    /\ LET at == Reached(variant, outcome)
           \* createShaderModule calls made, pipeline members filled
           calls == IF at = 1 THEN 0 ELSE IF at <= 4 THEN 2 ELSE 4
           layouts == IF at <= 2 THEN 0 ELSE IF at = 3 THEN 1
                      ELSE IF at <= 5 /\ variant = "vulkan7" THEN 2
                      ELSE IF at = 6 THEN 3 ELSE Len(StepObjects(variant, "graphicsPipeline"))
           \* pairs of modules destroyed again before the end
           pairs == IF at <= 3 THEN 0
                    ELSE IF variant = "vulkan7" /\ at <= 6 THEN 1
                    ELSE Len(ShaderModules(variant)) \div 2
           modules == ShaderModules(variant)
           made == Without(SubSeq(modules, 1, calls), failedModule)
           undone == IF pairs = 0 THEN <<>>
                     ELSE IF pairs = 1 THEN <<modules[2], modules[1]>>
                     ELSE <<modules[2], modules[1], modules[4], modules[3]>>
       IN  /\ failedModule \in 0 .. calls
           /\ shaderModule' =
                  IF failedModule # 0
                  THEN createShaderModule(VK_ERROR_INITIALIZATION_FAILED, indeterminate)
                  ELSE IF calls # 0 THEN createShaderModule(VK_SUCCESS, indeterminate)
                  ELSE shaderModule
           /\ createdObjects' = createdObjects \o made
                  \o SubSeq(StepObjects(variant, "graphicsPipeline"), 1, layouts)
           /\ destroyedObjects' = destroyedObjects \o undone
           /\ creationErrors' = IF failedModule # 0 \/ outcome # "ok"
                                THEN creationErrors \cup {"graphicsPipeline"}
                                ELSE creationErrors
    /\ IF outcome = "ok"
       THEN /\ pc' = "graphicsPipeline"
            /\ UNCHANGED thrown
       ELSE /\ thrown' = PipelineError(outcome)
            /\ pc' = "failed"
    /\ UNCHANGED <<variant, deviceList, m_device_physical, call>>
    /\ UNCHANGED <<deviceVars, ctxVars, logVars, sceneVars>>

\* the file of the default texture, created at the end of initContext
DefaultTexture == "plain.png"

\* createTexture with a descriptor location one past the set just pushed
createTextureOnePast(sets, fileName) ==
    [sets |-> push_back(sets, fileName), descriptorLoc |-> Size(sets) + 1]

\* vkContext::createTexture when nothing fails: createTextureDescriptor
\* pushes the new descriptor set and returns its position
createTexture(sets, fileName) ==
    [sets |-> push_back(sets, fileName),
     descriptorLoc |-> Size(push_back(sets, fileName)) - 1]

InitStep(ok) ==
    /\ NextStep \in PlainSteps
    /\ m_samplerDescriptorSets' =
           IF ok /\ NextStep = "texture"
           THEN createTexture(m_samplerDescriptorSets, DefaultTexture).sets
           ELSE m_samplerDescriptorSets
    /\ UNCHANGED <<formatProperties, formatCall, m_modelList, meshModelCall, recordCall>>
    /\ LET objs == StepObjects(variant, NextStep)
       IN  IF ok
           THEN /\ pc' = NextStep
                /\ StepDone(objs)
                /\ UNCHANGED thrown
           ELSE /\ \E msg \in StepErrors(NextStep) : thrown' = msg
                /\ pc' = "failed"
                /\ \E k \in 0 .. Len(objs) :
                       /\ (k < Len(objs) \/ k = 0)
                       /\ StepThrew(NextStep, SubSeq(objs, 1, k))
    /\ UNCHANGED <<variant, deviceList, m_device_physical, call>>
    /\ UNCHANGED <<deviceVars, ctxVars, logVars>>

\* the device m_device.physical is the handle of
SelectedDevice == deviceList[m_device_physical - 1]

\* the VkDevice handle vkCreateDevice hands out for a physical device
LogicalHandle(physical) == physical

\* createLogicalDevice with a vector instead of the std::set: one entry for
\* the graphics family and one for the presentation family
queueCreateInfosPerRole(indices) ==
    <<[queueFamilyIndex |-> indices.graphicsFamily, queueCount |-> 1],
      [queueFamilyIndex |-> indices.presentationFamily, queueCount |-> 1]>>

\* createLogicalDevice's loop over the std::set qfi, in ascending order:
\* one VkDeviceQueueCreateInfo with queueCount = 1 pushed per element
RECURSIVE pushQueueCreateInfos(_, _)
pushQueueCreateInfos(qfi, infos) ==
    IF qfi = {}
    THEN infos
    ELSE LET queueFamilyIndex == CHOOSE x \in qfi : \A y \in qfi : x <= y
         IN  pushQueueCreateInfos(qfi \ {queueFamilyIndex},
                 Append(infos, [queueFamilyIndex |-> queueFamilyIndex, queueCount |-> 1]))

\* the queueCreateInfos vector createLogicalDevice builds from the indices
queueCreateInfos(indices) ==
    pushQueueCreateInfos({indices.graphicsFamily, indices.presentationFamily}, <<>>)

(* vkContext::createLogicalDevice *)
CreateLogicalDevice(result) ==
    /\ NextStep = "logical"
    /\ LET indices == getQueueFamilies(SelectedDevice).indices
           qfi == {indices.graphicsFamily, indices.presentationFamily}
           infos == queueCreateInfos(indices)
       IN  /\ deviceCreateInfo' = [op |-> "vkCreateDevice", queueFamilies |-> qfi,
                                   pQueueCreateInfos |-> infos,
                                   queueCreateInfoCount |-> Len(infos)]
           /\ IF result # VK_SUCCESS
              THEN /\ thrown' = "Failed to create a Logical Device"
                   /\ pc' = "failed"
                   /\ StepThrew("logical", <<>>)
                   /\ UNCHANGED <<m_device_logical, m_graphicsQueue, m_presentationQueue>>
              ELSE /\ m_device_logical' = LogicalHandle(m_device_physical)
                   /\ m_graphicsQueue' =
                          [queueFamilyIndex |-> indices.graphicsFamily, queueIndex |-> 0]
                   /\ m_presentationQueue' =
                          [queueFamilyIndex |-> indices.presentationFamily, queueIndex |-> 0]
                   /\ pc' = "logical"
                   /\ StepDone(StepObjects(variant, "logical"))
                   /\ UNCHANGED thrown
    /\ UNCHANGED <<variant, deviceList, m_device_physical, call>>
    /\ UNCHANGED <<surfaceCapabilities, swapChainCreateInfo, m_swapChainImages, poolInfo,
                   m_drawFences, m_currentFrame, inFlight, lastDraw>>
    /\ UNCHANGED <<ctxVars, logVars, sceneVars>>

\* createSwapChain: the number of images asked for
imageCount(capabilities) ==
    LET count == capabilities.minImageCount + 1
    IN  IF capabilities.maxImageArrayLayers > 0 /\ capabilities.maxImageCount < count
        THEN capabilities.maxImageCount
        ELSE count

VK_SHARING_MODE_EXCLUSIVE == 0
VK_SHARING_MODE_CONCURRENT == 1

\* the most images a swapchain of the model holds
MaxImages == 3

\* the numbers of images vkGetSwapchainImagesKHR may report for a swapchain
\* created with minImageCount = requested: at least that many, and at least
\* one; a request below the surface's minimum is invalid usage and leaves the
\* number to the driver
SwapChainImageCounts(capabilities, requested) ==
    IF requested < capabilities.minImageCount
    THEN 1 .. MaxImages
    ELSE {n \in requested .. MaxImages :
             capabilities.maxImageCount = 0 \/ n <= capabilities.maxImageCount}

(* vkContext::createSwapChain *)
CreateSwapChain(result, n) ==
    /\ NextStep = "swapChain"
    /\ LET requested == imageCount(surfaceCapabilities)
           indicies == getQueueFamilies(SelectedDevice).indices
           shared == indicies.graphicsFamily # indicies.presentationFamily
       IN  /\ swapChainCreateInfo' =
                  [op |-> "vkCreateSwapchainKHR", minImageCount |-> requested,
                   imageSharingMode |-> IF shared THEN VK_SHARING_MODE_CONCURRENT
                                        ELSE VK_SHARING_MODE_EXCLUSIVE,
                   queueFamilyIndexCount |-> IF shared THEN 2 ELSE 0,
                   pQueueFamilyIndices |->
                       IF shared
                       THEN <<indicies.graphicsFamily, indicies.presentationFamily>>
                       ELSE <<>>]
           /\ IF result = VK_SUCCESS
              THEN /\ n \in SwapChainImageCounts(surfaceCapabilities, requested)
                   /\ m_swapChainImages' = [i \in 0 .. (n - 1) |-> i + 1]
                   /\ inFlight' = [i \in 0 .. (n - 1) |-> -1]
                   /\ pc' = "swapChain"
                   /\ StepDone(StepObjects(variant, "swapChain"))
                   /\ UNCHANGED thrown
              ELSE /\ n = 0
                   /\ thrown' = "failed to create a swapchain"
                   /\ pc' = "failed"
                   /\ StepThrew("swapChain", <<>>)
                   /\ UNCHANGED <<m_swapChainImages, inFlight>>
    /\ UNCHANGED <<variant, deviceList, m_device_physical, call>>
    /\ UNCHANGED <<surfaceCapabilities, m_device_logical, deviceCreateInfo, m_graphicsQueue,
                   m_presentationQueue, poolInfo, m_drawFences, m_currentFrame, lastDraw>>
    /\ UNCHANGED <<ctxVars, logVars, sceneVars>>

(* vkContext::createCommandPool *)
CreateCommandPoolPresentation(result) ==
    /\ NextStep = "commandPool"
    /\ LET qfi == getQueueFamilies(SelectedDevice).indices
       IN  poolInfo' = [op |-> "vkCreateCommandPool",
                        queueFamilyIndex |-> qfi.presentationFamily]
    /\ IF result = VK_SUCCESS
       THEN /\ pc' = "commandPool"
            /\ StepDone(StepObjects(variant, "commandPool"))
            /\ UNCHANGED thrown
       ELSE /\ thrown' = "failed to create commadn pool"
            /\ pc' = "failed"
            /\ StepThrew("commandPool", <<>>)
    /\ UNCHANGED <<variant, deviceList, m_device_physical, call>>
    /\ UNCHANGED <<surfaceCapabilities, m_device_logical, deviceCreateInfo, m_graphicsQueue,
                   m_presentationQueue, swapChainCreateInfo, m_swapChainImages,
                   m_drawFences, m_currentFrame, inFlight, lastDraw>>
    /\ UNCHANGED <<ctxVars, logVars, sceneVars>>

CreateCommandPool(result) ==
    /\ NextStep = "commandPool"
    /\ LET qfi == getQueueFamilies(SelectedDevice).indices
       IN  poolInfo' = [op |-> "vkCreateCommandPool",
                        queueFamilyIndex |-> qfi.graphicsFamily]
    /\ IF result = VK_SUCCESS
       THEN /\ pc' = "commandPool"
            /\ StepDone(StepObjects(variant, "commandPool"))
            /\ UNCHANGED thrown
       ELSE /\ thrown' = "failed to create commadn pool"
            /\ pc' = "failed"
            /\ StepThrew("commandPool", <<>>)
    /\ UNCHANGED <<variant, deviceList, m_device_physical, call>>
    /\ UNCHANGED <<surfaceCapabilities, m_device_logical, deviceCreateInfo, m_graphicsQueue,
                   m_presentationQueue, swapChainCreateInfo, m_swapChainImages,
                   m_drawFences, m_currentFrame, inFlight, lastDraw>>
    /\ UNCHANGED <<ctxVars, logVars, sceneVars>>

\* utilities.h of the stage: triangle's, and the one vulkan5 introduced
TRIANGLE_MAX_FRAME_DRAWS == 3
VULKAN5_MAX_FRAME_DRAWS == 2

MAX_FRAME_DRAWS(v) ==
    IF v = "vulkan7" THEN VULKAN5_MAX_FRAME_DRAWS ELSE TRIANGLE_MAX_FRAME_DRAWS

(* vkContext::createSynchronisations: the vectors are resized, then the
   semaphores and the fence of each frame are createdObjects, the fence signalled;
   failedAt is the frame whose creation fails, MAX_FRAME_DRAWS if none does *)
CreateSynchronisations(failedAt) ==
    /\ NextStep = "synchronisations"
    /\ failedAt \in 0 .. MAX_FRAME_DRAWS(variant)
    /\ m_drawFences' = [i \in 0 .. (MAX_FRAME_DRAWS(variant) - 1) |->
                            IF i < failedAt THEN "signaled" ELSE "null"]
    /\ IF failedAt = MAX_FRAME_DRAWS(variant)
       THEN /\ pc' = "synchronisations"
            /\ StepDone(StepObjects(variant, "synchronisations"))
            /\ UNCHANGED thrown
       ELSE /\ thrown' = "Failed to create a Semaphore and/or Fence!"
            /\ pc' = "failed"
            /\ StepThrew("synchronisations",
                         IF failedAt = 0 THEN <<>>
                         ELSE StepObjects(variant, "synchronisations"))
    /\ UNCHANGED <<variant, deviceList, m_device_physical, call>>
    /\ UNCHANGED <<surfaceCapabilities, m_device_logical, deviceCreateInfo, m_graphicsQueue,
                   m_presentationQueue, swapChainCreateInfo, m_swapChainImages, poolInfo,
                   m_currentFrame, inFlight, lastDraw>>
    /\ UNCHANGED <<ctxVars, logVars, sceneVars>>

----------------------------------------------------------------------------
(* main's loop: draw() until the window is closed, then cleanupContext *)

\* the stages whose main calls draw()
Draws(v) == v \in {"triangle2", "vulkan7"}

\* the points at which one draw() may throw
DrawOutcomes(v) ==
    IF v = "vulkan7" THEN {"ok", "record", "submit", "present"}
    ELSE {"ok", "submit", "present"}

DrawError(outcome) ==
    CASE outcome = "record" -> "Failed to start recording a Command Buffer!"
      [] outcome = "submit" -> "failed to command to graphics queue"
      [] outcome = "present" -> "failed to present image to presentation queue"
      [] OTHER -> ""

\* recordcommands' loop over the meshes of one model: the texture id each
\* mesh looks its sampler descriptor set up with
RECURSIVE recordMeshes(_, _, _)
recordMeshes(thisModel, k, lookups) ==
    IF k >= Size(thisModel) THEN lookups
    ELSE recordMeshes(thisModel, k + 1, push_back(lookups, thisModel[k]))

\* recordcommands' loop over m_modelList
RECURSIVE recordModels(_, _, _)
recordModels(modelList, j, lookups) ==
    IF j >= Size(modelList) THEN lookups
    ELSE recordModels(modelList, j + 1, recordMeshes(modelList[j], 0, lookups))

\* the indices recordcommands reads m_samplerDescriptorSets at, in order
recordcommands(modelList) == recordModels(modelList, 0, <<>>)

\* the images whose last submission signals the fence the host has now waited on
Waited(flight, frame) ==
    [i \in DOMAIN flight |-> IF flight[i] = frame THEN -1 ELSE flight[i]]

(* vkContext::draw.  vkWaitForFences returns once the fence of the current
   frame is signalled; vkAcquireNextImageKHR hands out imageIndex; in vulkan7
   the command buffer and the uniform buffer of that image are rewritten; the
   command buffer of that image is submitted with the fence of the current
   frame.  An exception leaves draw() and, uncaught in main, ends the program *)
\* a draw() that advances the frame counter without wrapping it
DrawWithoutWrap(imageIndex, outcome) ==
    /\ Initialised
    /\ Draws(variant)
    /\ m_drawFences[m_currentFrame] = "signaled"
    /\ imageIndex \in DOMAIN m_swapChainImages
    /\ outcome \in DrawOutcomes(variant)
    /\ LET waited == Waited(inFlight, m_currentFrame)
           submitted == outcome \in {"ok", "present"}
       IN  /\ lastDraw' = [op |-> "draw", frame |-> m_currentFrame, image |-> imageIndex,
                           unwaited |-> waited[imageIndex],
                           executing |-> IF waited[imageIndex] = -1 THEN FALSE
                                         ELSE m_drawFences[waited[imageIndex]] = "pending",
                           result |-> outcome]
           /\ m_drawFences' = [m_drawFences EXCEPT ![m_currentFrame] =
                                   IF submitted THEN "pending" ELSE "unsignaled"]
           /\ inFlight' = IF submitted
                          THEN [waited EXCEPT ![imageIndex] = m_currentFrame]
                          ELSE waited
    /\ IF outcome = "ok"
       THEN /\ m_currentFrame' = m_currentFrame + 1
            /\ UNCHANGED <<pc, thrown>>
       ELSE /\ thrown' = DrawError(outcome)
            /\ pc' = "terminated"
            /\ UNCHANGED m_currentFrame
    /\ UNCHANGED <<variant, deviceList, m_device_physical, call>>
    /\ UNCHANGED <<surfaceCapabilities, m_device_logical, deviceCreateInfo, m_graphicsQueue,
                   m_presentationQueue, swapChainCreateInfo, m_swapChainImages, poolInfo>>
    /\ recordCall' = IF variant = "vulkan7" /\ outcome # "record"
                     THEN [op |-> "recordcommands", currentImage |-> imageIndex,
                           lookups |-> recordcommands(m_modelList)]
                     ELSE recordCall
    /\ UNCHANGED <<formatProperties, formatCall, m_samplerDescriptorSets, m_modelList,
                   meshModelCall>>
    /\ UNCHANGED <<objVars, ctxVars, logVars>>

Draw(imageIndex, outcome) ==
    /\ Initialised
    /\ Draws(variant)
    /\ m_drawFences[m_currentFrame] = "signaled"
    /\ imageIndex \in DOMAIN m_swapChainImages
    /\ outcome \in DrawOutcomes(variant)
    /\ LET waited == Waited(inFlight, m_currentFrame)
           submitted == outcome \in {"ok", "present"}
       IN  /\ lastDraw' = [op |-> "draw", frame |-> m_currentFrame, image |-> imageIndex,
                           unwaited |-> waited[imageIndex],
                           executing |-> IF waited[imageIndex] = -1 THEN FALSE
                                         ELSE m_drawFences[waited[imageIndex]] = "pending",
                           result |-> outcome]
           /\ m_drawFences' = [m_drawFences EXCEPT ![m_currentFrame] =
                                   IF submitted THEN "pending" ELSE "unsignaled"]
           /\ inFlight' = IF submitted
                          THEN [waited EXCEPT ![imageIndex] = m_currentFrame]
                          ELSE waited
    /\ IF outcome = "ok"
       THEN /\ m_currentFrame' = (m_currentFrame + 1) % MAX_FRAME_DRAWS(variant)
            /\ UNCHANGED <<pc, thrown>>
       ELSE /\ thrown' = DrawError(outcome)
            /\ pc' = "terminated"
            /\ UNCHANGED m_currentFrame
    /\ UNCHANGED <<variant, deviceList, m_device_physical, call>>
    /\ UNCHANGED <<surfaceCapabilities, m_device_logical, deviceCreateInfo, m_graphicsQueue,
                   m_presentationQueue, swapChainCreateInfo, m_swapChainImages, poolInfo>>
    /\ recordCall' = IF variant = "vulkan7" /\ outcome # "record"
                     THEN [op |-> "recordcommands", currentImage |-> imageIndex,
                           lookups |-> recordcommands(m_modelList)]
                     ELSE recordCall
    /\ UNCHANGED <<formatProperties, formatCall, m_samplerDescriptorSets, m_modelList,
                   meshModelCall>>
    /\ UNCHANGED <<objVars, ctxVars, logVars>>

(* the device finishes the submission that signals the fence of `frame` *)
QueueCompletes(frame) ==
    /\ Initialised
    /\ frame \in DOMAIN m_drawFences
    /\ m_drawFences[frame] = "pending"
    /\ m_drawFences' = [m_drawFences EXCEPT ![frame] = "signaled"]
    /\ UNCHANGED contextVars
    /\ UNCHANGED <<surfaceCapabilities, m_device_logical, deviceCreateInfo, m_graphicsQueue,
                   m_presentationQueue, swapChainCreateInfo, m_swapChainImages, poolInfo,
                   m_currentFrame, inFlight, lastDraw>>
    /\ UNCHANGED <<objVars, ctxVars, logVars, sceneVars>>

(* vkContext::cleanupContext, called once the window is closed:
   vkDeviceWaitIdle returns when nothing is pending, then the fences (and
   everything else) are destroyed; the handles keep their values *)
CleanupContext ==
    /\ Initialised
    /\ \A f \in DOMAIN m_drawFences : m_drawFences[f] # "pending"
    /\ m_drawFences' = [f \in DOMAIN m_drawFences |-> "destroyed"]
    /\ destroyedObjects' =
           destroyedObjects
               \o (IF variant = "vulkan7" /\ Size(m_modelList) > 0
                   THEN <<"m_modelList">> ELSE <<>>)
               \o CleanupObjects(variant)
    /\ UNCHANGED <<shaderModule, creationErrors, createdObjects>>
    /\ pc' = "cleaned"
    /\ UNCHANGED <<variant, deviceList, m_device_physical, thrown, call>>
    /\ UNCHANGED <<surfaceCapabilities, m_device_logical, deviceCreateInfo, m_graphicsQueue,
                   m_presentationQueue, swapChainCreateInfo, m_swapChainImages, poolInfo,
                   m_currentFrame, inFlight, lastDraw>>
    /\ UNCHANGED <<ctxVars, logVars, sceneVars>>

----------------------------------------------------------------------------
(* vkContext::createMeshModel (vulkan7), called by main between initContext
   and the first draw() *)

\* createMeshModel's loop over textureNames: a material without a texture
\* gets 0, any other the location createTexture returns; createTexture of
\* material failAt throws, before anything is pushed
RECURSIVE loadTextures(_, _, _, _, _)
loadTextures(textureNames, i, sets, matToTex, failAt) ==
    IF i >= Size(textureNames)
    THEN [threw |-> FALSE, sets |-> sets, matToTex |-> matToTex]
    ELSE IF textureNames[i] = ""
    THEN loadTextures(textureNames, i + 1, sets, push_back(matToTex, 0), failAt)
    ELSE IF i = failAt
    THEN [threw |-> TRUE, sets |-> sets, matToTex |-> matToTex]
    ELSE LET texture == createTexture(sets, textureNames[i])
         IN  loadTextures(textureNames, i + 1, texture.sets,
                          push_back(matToTex, texture.descriptorLoc), failAt)

\* MeshModel::loadNode and loadMesh: each mesh of the scene gets the texture
\* id of its material
loadNode(materialIndices, matToTex) ==
    [k \in DOMAIN materialIndices |-> matToTex[materialIndices[k]]]

\* textureNames: what MeshModel::LoadMaterials reads off the scene's
\* materials; materialIndices: mMaterialIndex of the scene's meshes;
\* loaded: whether Assimp could read the file; failAt: the material whose
\* createTexture throws, -1 for none; meshesLoaded: whether every mesh got
\* its buffers.  An exception leaves createMeshModel and, uncaught in main,
\* ends the program
CreateMeshModel(textureNames, materialIndices, loaded, failAt, meshesLoaded) ==
    /\ Initialised
    /\ variant = "vulkan7"
    /\ lastDraw.op = "none"
    /\ meshModelCall.op = "none"
    /\ \A k \in DOMAIN materialIndices : materialIndices[k] \in DOMAIN textureNames
    /\ failAt # -1 => (failAt \in DOMAIN textureNames /\ textureNames[failAt] # "")
    /\ LET textures == loadTextures(textureNames, 0, m_samplerDescriptorSets, <<>>, failAt)
           returned == loaded /\ ~textures.threw /\ meshesLoaded
           meshModel == loadNode(materialIndices, textures.matToTex)
       IN  /\ m_samplerDescriptorSets' =
                  IF loaded THEN textures.sets ELSE m_samplerDescriptorSets
           /\ m_modelList' =
                  IF returned THEN push_back(m_modelList, meshModel) ELSE m_modelList
           /\ meshModelCall' =
                  [op |-> "createMeshModel", textureNames |-> textureNames,
                   materialIndices |-> materialIndices, returned |-> returned,
                   matToTex |-> IF loaded THEN textures.matToTex ELSE <<>>,
                   modelId |-> IF returned THEN Size(push_back(m_modelList, meshModel)) - 1
                               ELSE -1]
           /\ createdObjects' =
                  IF returned THEN Append(createdObjects, "m_modelList") ELSE createdObjects
           /\ IF returned
              THEN UNCHANGED <<pc, thrown>>
              ELSE /\ pc' = "terminated"
                   /\ thrown' = IF ~loaded THEN "Failed to load model!"
                                ELSE IF textures.threw
                                THEN "failed to load a texture file"
                                ELSE "Failed to create a Vertex Buffer!"
    /\ UNCHANGED <<formatProperties, formatCall, recordCall>>
    /\ UNCHANGED <<variant, deviceList, m_device_physical, call>>
    /\ UNCHANGED <<deviceVars, shaderModule, creationErrors, destroyedObjects>>
    /\ UNCHANGED <<ctxVars, logVars>>

----------------------------------------------------------------------------
(* vkContext::chooseSupportedFormat (vulkan7), called by createRenderPass,
   createColourBufferImage and createDepthBufferImage *)

VK_IMAGE_TILING_OPTIMAL == 0
VK_IMAGE_TILING_LINEAR == 1

VK_FORMAT_D32_SFLOAT == 126
VK_FORMAT_D24_UNORM_S8_UINT == 129
VK_FORMAT_D32_SFLOAT_S8_UINT == 130

VK_FORMAT_FEATURE_DEPTH_STENCIL_ATTACHMENT_BIT == 512
\* the image layout the colour-attachment calls pass as their feature flags
VK_IMAGE_LAYOUT_COLOR_ATTACHMENT_OPTIMAL == 2

\* the body of the loop over `formats`, entered for formats[at]: it returns
\* the format or throws; control never reaches a second element.  With no
\* element left the function would end without a return statement; no
\* caller passes an empty list
RECURSIVE chooseSupportedFormatLoop(_, _, _, _, _)
chooseSupportedFormatLoop(table, formats, at, tiling, flags) ==
    IF at >= Size(formats)
    THEN [threw |-> FALSE, returned |-> FALSE]
    ELSE LET format == formats[at]
             formatProps == table[format]
         IN  IF /\ tiling = VK_IMAGE_TILING_LINEAR
                /\ BitAnd(formatProps.linearTilingFeatures, flags) = flags
             THEN [threw |-> FALSE, returned |-> TRUE, format |-> format]
             ELSE IF /\ tiling = VK_IMAGE_TILING_OPTIMAL
                     /\ BitAnd(formatProps.optimalTilingFeatures, flags) = flags
             THEN [threw |-> FALSE, returned |-> TRUE, format |-> format]
             ELSE [threw |-> TRUE, returned |-> FALSE,
                   what |-> "Failed to find a matching format"]

chooseSupportedFormat(table, formats, tiling, flags) ==
    chooseSupportedFormatLoop(table, formats, 0, tiling, flags)

(* one call of chooseSupportedFormat on the selected device *)
ChooseSupportedFormat(formats, tiling, flags) ==
    /\ formatProperties # <<>>
    /\ Size(formats) > 0
    /\ formatCall' = [op |-> "chooseSupportedFormat", formats |-> formats,
                      tiling |-> tiling, flags |-> flags,
                      result |-> chooseSupportedFormat(formatProperties, formats,
                                                       tiling, flags)]
    /\ UNCHANGED <<formatProperties, m_samplerDescriptorSets, m_modelList, meshModelCall,
                   recordCall>>
    /\ UNCHANGED <<contextVars, runVars, ctxVars, logVars>>

----------------------------------------------------------------------------
(* CLogger (chap01/module1/logger.h, logger.cpp) *)

INFO == 1
DEBUG == 2
WARNING == 3
ERR == 4
FATAL == 5
NOTICE == 6

\* the output devices a sink may be registered under: 0 .. MaxSinkIds - 1
MaxSinkIds == 2

\* the functions a caller may register; nullptr is no function
Callbacks == {1, 2}

\* CLogger::outMsg: the key of the entry whose sink is called, -1 if none is
outMsg(callbacks, minimum, nWhich, level) ==
    IF (nWhich \in DOMAIN callbacks) /\ (callbacks[nWhich] # nullptr)
    THEN IF minimum <= level THEN nWhich ELSE -1
    ELSE -1

\* what one outMsg call saw (the sink registered under nWhich, nullptr if
\* none; whether a level was ever set; m_level) and did
OutMsgRecord(nWhich, level) ==
    LET key == outMsg(m_mapCallbacks, m_level, nWhich, level)
    IN  [op |-> "outMsg", nWhich |-> nWhich, level |-> level,
         registered |-> IF nWhich \in DOMAIN m_mapCallbacks THEN m_mapCallbacks[nWhich]
                        ELSE nullptr,
         configured |-> levelSet, minimum |-> m_level,
         key |-> key,
         sink |-> IF key = -1 THEN nullptr ELSE m_mapCallbacks[key]]

(* CLogger::setLevel *)
SetLevel(l) ==
    /\ m_level' = l
    /\ levelSet' = TRUE
    /\ UNCHANGED <<m_mapCallbacks, logCall>>
    /\ UNCHANGED <<contextVars, runVars, ctxVars, sceneVars>>

(* CLogger::regOutDevice: std::map::insert keeps an existing entry, and the
   failure is reported through outMsg(0, ERR, ...) *)
RegOutDevice(nWhich, callback) ==
    /\ IF nWhich \notin DOMAIN m_mapCallbacks
       THEN /\ m_mapCallbacks' = [k \in DOMAIN m_mapCallbacks \cup {nWhich} |->
                                      IF k = nWhich THEN callback ELSE m_mapCallbacks[k]]
            /\ UNCHANGED logCall
       ELSE /\ logCall' = OutMsgRecord(0, ERR)
            /\ UNCHANGED m_mapCallbacks
    /\ UNCHANGED <<m_level, levelSet>>
    /\ UNCHANGED <<contextVars, runVars, ctxVars, sceneVars>>

(* CLogger::outMsg *)
OutMsg(nWhich, level) ==
    /\ logCall' = OutMsgRecord(nWhich, level)
    /\ UNCHANGED <<m_mapCallbacks, m_level, levelSet>>
    /\ UNCHANGED <<contextVars, runVars, ctxVars, sceneVars>>

----------------------------------------------------------------------------
(* The machines the programs may find themselves on *)

\* extension names a driver may report: "VK_KHR_SWAPCHAIN", "VK_KHR_swap",
\* "VK_KHR_swapchain_mutable_format", "VK_KHR_maintenance1"
NAME_UPPER == <<86, 75, 95, 75, 72, 82, 95, 83, 87, 65, 80, 67, 72, 65, 73, 78>>
NAME_SHORT == SubSeq(VK_KHR_SWAPCHAIN_EXTENSION_NAME, 1, 11)
NAME_LONG ==
    VK_KHR_SWAPCHAIN_EXTENSION_NAME
        \o <<95, 109, 117, 116, 97, 98, 108, 101, 95, 102, 111, 114, 109, 97, 116>>
NAME_OTHER ==
    <<86, 75, 95, 75, 72, 82, 95, 109, 97, 105, 110, 116, 101, 110, 97, 110, 99, 101, 49>>

ExtensionNames == {VK_KHR_SWAPCHAIN_EXTENSION_NAME, NAME_UPPER, NAME_SHORT, NAME_LONG}

Family(n, flags, present) ==
    [queueCount |-> n, queueFlags |-> flags, presentationSupport |-> present]

\* a family has the graphics bit or not, can present or not; a family that
\* offers no queue at all advertises everything
QueueFamilies ==
    {Family(1, flags, present) :
        flags \in {VK_QUEUE_TRANSFER_BIT, VK_QUEUE_GRAPHICS_BIT + VK_QUEUE_TRANSFER_BIT},
        present \in BOOLEAN}
    \cup {Family(0, VK_QUEUE_GRAPHICS_BIT + VK_QUEUE_TRANSFER_BIT, TRUE)}

Device(type, families, exts, formats, modes, anisotropy) ==
    [deviceType |-> type, queueFamilyList |-> families, extensions |-> exts,
     formatCount |-> formats, presentationCnt |-> modes, samplerAnisotropy |-> anisotropy]

FamG == Family(1, VK_QUEUE_GRAPHICS_BIT + VK_QUEUE_TRANSFER_BIT, FALSE)
FamP == Family(1, VK_QUEUE_TRANSFER_BIT, TRUE)
FamGP == Family(2, VK_QUEUE_GRAPHICS_BIT + VK_QUEUE_COMPUTE_BIT, TRUE)

OneOf(x) == [i \in 0 .. 0 |-> x]
TwoOf(x, y) == [i \in 0 .. 1 |-> IF i = 0 THEN x ELSE y]

SwapchainOnly == OneOf(VK_KHR_SWAPCHAIN_EXTENSION_NAME)

\* devices that differ in the one check they fail
SelectionDevices ==
    {Device(VK_PHYSICAL_DEVICE_TYPE_DISCRETE_GPU, OneOf(FamGP), SwapchainOnly, 2, 3, TRUE),
     Device(VK_PHYSICAL_DEVICE_TYPE_INTEGRATED_GPU, TwoOf(FamG, FamP),
            TwoOf(NAME_OTHER, VK_KHR_SWAPCHAIN_EXTENSION_NAME), 1, 1, TRUE),
     Device(VK_PHYSICAL_DEVICE_TYPE_DISCRETE_GPU, OneOf(FamGP), SwapchainOnly, 2, 0, TRUE),
     Device(VK_PHYSICAL_DEVICE_TYPE_DISCRETE_GPU, OneOf(FamGP), SwapchainOnly, 2, 3, FALSE),
     Device(VK_PHYSICAL_DEVICE_TYPE_OTHER, OneOf(FamGP), SwapchainOnly, 2, 3, TRUE)}

\* one device, any queue-family layout
FamilyProbeDevices ==
    {Device(VK_PHYSICAL_DEVICE_TYPE_DISCRETE_GPU, f, SwapchainOnly, 1, 1, TRUE) :
        f \in Vectors(QueueFamilies, MaxFamilies)}

\* one device, any extension list and swapchain support
SupportProbeDevices ==
    {Device(VK_PHYSICAL_DEVICE_TYPE_DISCRETE_GPU, f, e, formats, modes, a) :
        f \in {OneOf(FamGP), OneOf(FamG)},
        e \in Vectors(ExtensionNames, MaxExtensions),
        formats \in {0, 2}, modes \in {0, 1}, a \in BOOLEAN}

Variants == {"triangle", "triangle2", "vulkan7"}

Capabilities(min, max, layers) ==
    [minImageCount |-> min, maxImageCount |-> max, maxImageArrayLayers |-> layers]

\* a surface that allows two or three images
DefaultCapabilities == Capabilities(1, MaxImages, 1)

\* maxImageCount is 0 (no limit) or at least minImageCount
SurfaceCapabilities ==
    {Capabilities(min, max, 1) : min \in 1 .. 2, max \in 0 .. MaxImages} \
        {Capabilities(2, 1, 1)}

\* a queue nobody has fetched yet
NoQueue == [queueFamilyIndex |-> -1, queueIndex |-> -1]

(* the members the vkContext constructor leaves for initContext to fill *)
ContextConstructed ==
    /\ m_device_logical = nullptr
    /\ deviceCreateInfo = [op |-> "none"]
    /\ m_graphicsQueue = NoQueue
    /\ m_presentationQueue = NoQueue
    /\ swapChainCreateInfo = [op |-> "none"]
    /\ m_swapChainImages = <<>>
    /\ poolInfo = [op |-> "none"]
    /\ m_drawFences = <<>>
    /\ m_currentFrame = 0
    /\ inFlight = <<>>
    /\ lastDraw = [op |-> "none"]
    /\ shaderModule = [op |-> "none"]
    /\ creationErrors = {}
    /\ destroyedObjects = <<>>

\* the objects the first count calls of initContext have created
ObjectsOf(v, count) ==
    LET RECURSIVE upTo(_)
        upTo(k) == IF k = 0 THEN <<>>
                   ELSE upTo(k - 1) \o StepObjects(v, InitSteps(v)[k])
    IN  upTo(count)

(* no vkContext in this program *)
NoContext ==
    /\ variant = "triangle"
    /\ deviceList = <<>>
    /\ m_device_physical = nullptr
    /\ pc = "idle"
    /\ thrown = ""
    /\ call = [op |-> "none"]
    /\ surfaceCapabilities = DefaultCapabilities
    /\ ContextConstructed
    /\ createdObjects = <<>>

(* no vkCtx in this program *)
NoCtx ==
    /\ m_physicalDevices = <<>>
    /\ properties = [type |-> 0, ops |-> 0]
    /\ device = 0
    /\ res = VK_SUCCESS
    /\ canidateDevs = <<>>
    /\ found = <<>>
    /\ instanceDevices = <<>>
    /\ pcCtx = "idle"
    /\ m_pLogicalDevice = nullptr

(* no format looked up, no texture, no model, nothing recorded *)
NoScene ==
    /\ formatProperties = <<>>
    /\ formatCall = [op |-> "none"]
    /\ m_samplerDescriptorSets = <<>>
    /\ m_modelList = <<>>
    /\ meshModelCall = [op |-> "none"]
    /\ recordCall = [op |-> "none"]

(* no CLogger in this program *)
NoLogger ==
    /\ m_mapCallbacks = <<>>
    /\ m_level = 0
    /\ levelSet = FALSE
    /\ logCall = [op |-> "none"]

(* vkContext after its constructor and createInstance, createDebugMessenger,
   createSurface: m_device is { nullptr, nullptr } *)
Init ==
    /\ variant \in Variants
    /\ \/ deviceList \in Vectors(SelectionDevices, MaxDevices)
       \/ deviceList \in {OneOf(d) : d \in FamilyProbeDevices}
       \/ deviceList \in {OneOf(d) : d \in SupportProbeDevices}
    /\ m_device_physical = nullptr
    /\ pc = "surface"
    /\ thrown = ""
    /\ call = [op |-> "none"]
    /\ surfaceCapabilities = DefaultCapabilities
    /\ ContextConstructed
    /\ createdObjects = ObjectsOf(variant, StepIndex(variant, "surface"))
    /\ NoCtx
    /\ NoLogger
    /\ NoScene

Next ==
    \/ GetPhysicalDevice
    \/ \E d \in 0 .. MaxDevices : CallGetQueueFamilies(d)
    \/ \E d \in 0 .. MaxDevices : CallCheckDeviceExtensionSupport(d)
    \/ \E d \in 0 .. MaxDevices : CallGetSwapChainDetails(d)
    \/ \E d \in 0 .. MaxDevices : CallCheckDeviceSuitable(d)

Spec == Init /\ [][Next]_vars

(* chap01/module1: main has constructed theApp and is about to call init *)

CtxFamily(flags) == [queueFlags |-> flags]

CtxDevice(type, families) == [deviceType |-> type, queueProperties |-> families]

DeviceTypes ==
    {VK_PHYSICAL_DEVICE_TYPE_OTHER, VK_PHYSICAL_DEVICE_TYPE_INTEGRATED_GPU,
     VK_PHYSICAL_DEVICE_TYPE_DISCRETE_GPU, VK_PHYSICAL_DEVICE_TYPE_VIRTUAL_GPU,
     VK_PHYSICAL_DEVICE_TYPE_CPU}

GraphicsTransfer == VK_QUEUE_GRAPHICS_BIT + VK_QUEUE_TRANSFER_BIT
GraphicsCompute == VK_QUEUE_GRAPHICS_BIT + VK_QUEUE_COMPUTE_BIT

\* several devices of any type, each with one queue family
CtxSelectionDevices ==
    {CtxDevice(t, OneOf(CtxFamily(GraphicsTransfer))) : t \in DeviceTypes}
    \cup {CtxDevice(t, OneOf(CtxFamily(VK_QUEUE_GRAPHICS_BIT))) :
            t \in {VK_PHYSICAL_DEVICE_TYPE_INTEGRATED_GPU,
                   VK_PHYSICAL_DEVICE_TYPE_DISCRETE_GPU}}

\* one device, any queue-family layout
CtxProbeDevices ==
    {CtxDevice(t, f) :
        t \in {VK_PHYSICAL_DEVICE_TYPE_OTHER, VK_PHYSICAL_DEVICE_TYPE_DISCRETE_GPU},
        f \in Vectors({CtxFamily(b) : b \in {VK_QUEUE_COMPUTE_BIT, VK_QUEUE_GRAPHICS_BIT,
                                             VK_QUEUE_TRANSFER_BIT, GraphicsTransfer,
                                             GraphicsCompute}},
                      MaxCtxFamilies)}

\* vkProperties.type is a 3-bit field, vkProperties.ops a 9-bit field
RequestedTypes == 0 .. 7
RequestedOps ==
    {0, VK_QUEUE_GRAPHICS_BIT, VK_QUEUE_TRANSFER_BIT, GraphicsTransfer, GraphicsCompute}

InitCtx ==
    /\ NoContext
    /\ NoLogger
    /\ NoScene
    /\ m_pLogicalDevice = nullptr
    /\ m_physicalDevices = <<>>
    /\ properties = [type |-> 0, ops |-> 0]
    /\ device = 0
    /\ res = VK_SUCCESS
    /\ canidateDevs = <<>>
    /\ found = <<>>
    /\ \/ instanceDevices \in Vectors(CtxSelectionDevices, MaxCtxDevices)
       \/ instanceDevices \in {OneOf(d) : d \in CtxProbeDevices}
    /\ pcCtx = "constructed"

NextCtx ==
    \/ \E t \in RequestedTypes, o \in RequestedOps,
          r \in {VK_SUCCESS, VK_ERROR_INCOMPATIBLE_DRIVER} :
           VkCtxInit([type |-> t, ops |-> o], r)
    \/ \E created \in BOOLEAN : MainCreateLogicalDevice(created)

SpecCtx == InitCtx /\ [][NextCtx]_vars

(* vkContext from its constructor to the end of main *)

\* a device with one family for graphics and presentation, a device with a
\* family for each, a device without presentation modes
SharedFamilyDevice ==
    Device(VK_PHYSICAL_DEVICE_TYPE_DISCRETE_GPU, OneOf(FamGP), SwapchainOnly, 2, 3, TRUE)
SeparateFamiliesDevice ==
    Device(VK_PHYSICAL_DEVICE_TYPE_INTEGRATED_GPU, TwoOf(FamG, FamP),
           TwoOf(NAME_OTHER, VK_KHR_SWAPCHAIN_EXTENSION_NAME), 1, 1, TRUE)
NoModesDevice ==
    Device(VK_PHYSICAL_DEVICE_TYPE_DISCRETE_GPU, OneOf(FamGP), SwapchainOnly, 2, 0, TRUE)

\* no device, none suitable, the first or the second suitable
RunDeviceLists ==
    {<<>>, OneOf(NoModesDevice), TwoOf(NoModesDevice, NoModesDevice),
     OneOf(SharedFamilyDevice), TwoOf(NoModesDevice, SeparateFamiliesDevice),
     TwoOf(SeparateFamiliesDevice, SharedFamilyDevice)}

\* a surface that allows exactly two images
DoubleBuffered == Capabilities(1, 2, 1)

InitRun ==
    /\ variant \in Variants
    /\ \/ /\ deviceList \in RunDeviceLists
          /\ surfaceCapabilities = DoubleBuffered
       \/ /\ deviceList = OneOf(SharedFamilyDevice)
          /\ surfaceCapabilities \in SurfaceCapabilities
    /\ m_device_physical = nullptr
    /\ pc = "constructed"
    /\ thrown = ""
    /\ call = [op |-> "none"]
    /\ ContextConstructed
    /\ createdObjects = <<>>
    /\ NoCtx
    /\ NoLogger
    /\ NoScene

NextRun ==
    \/ \E ok \in BOOLEAN : InitStep(ok)
    \/ \E outcome \in {"file", "layout", "pipeline", "file2", "layout2", "pipeline2", "ok"} :
           CreateGraphicsPipeline(0, nullptr, outcome)
    \/ GetPhysicalDevice
    \/ \E result \in {VK_SUCCESS, VK_ERROR_INITIALIZATION_FAILED} :
           CreateLogicalDevice(result)
    \/ \E result \in {VK_SUCCESS, VK_ERROR_INITIALIZATION_FAILED}, n \in 0 .. MaxImages :
           CreateSwapChain(result, n)
    \/ \E result \in {VK_SUCCESS, VK_ERROR_INITIALIZATION_FAILED} :
           CreateCommandPool(result)
    \/ \E failedAt \in 0 .. TRIANGLE_MAX_FRAME_DRAWS : CreateSynchronisations(failedAt)
    \/ \E imageIndex \in 0 .. MaxImages - 1,
          outcome \in {"ok", "record", "submit", "present"} : Draw(imageIndex, outcome)
    \/ \E frame \in 0 .. TRIANGLE_MAX_FRAME_DRAWS - 1 : QueueCompletes(frame)
    \/ CleanupContext

SpecRun == InitRun /\ [][NextRun]_vars

(* vkContext as above, with the capability probes invoked on any enumerated
   device at any time *)

InitProbed ==
    /\ variant \in Variants
    /\ deviceList \in RunDeviceLists
    /\ surfaceCapabilities = DoubleBuffered
    /\ m_device_physical = nullptr
    /\ pc = "constructed"
    /\ thrown = ""
    /\ call = [op |-> "none"]
    /\ ContextConstructed
    /\ createdObjects = <<>>
    /\ NoCtx
    /\ NoLogger
    /\ NoScene

NextProbes ==
    \/ \E d \in 0 .. MaxDevices : CallGetQueueFamilies(d)
    \/ \E d \in 0 .. MaxDevices : CallCheckDeviceExtensionSupport(d)
    \/ \E d \in 0 .. MaxDevices : CallGetSwapChainDetails(d)
    \/ \E d \in 0 .. MaxDevices : CallCheckDeviceSuitable(d)

NextProbed == NextRun \/ NextProbes

SpecProbed == InitProbed /\ [][NextProbed]_vars

(* a vkContext from construction to the end of main, on a driver whose
   vkCreateShaderModule may fail as well *)
InitLifetime == InitProbed

NextLifetime ==
    \/ NextRun
    \/ \E failedModule \in 1 .. 4, indeterminate \in IndeterminateHandles,
          outcome \in {"layout", "pipeline", "file2", "layout2", "pipeline2", "ok"} :
           CreateGraphicsPipeline(failedModule, indeterminate, outcome)

SpecLifetime == InitLifetime /\ [][NextLifetime]_vars

(* either program, from the construction of its context to the end of main *)

InitStartup == InitRun \/ InitCtx

NextStartup == NextRun \/ NextCtx

SpecStartup == InitStartup /\ [][NextStartup]_vars

(* CLogger after getInstance has constructed it: the constructor leaves
   m_level as it finds it *)

\* int severities: below the lowest declared level, the lowest, the one
\* regOutDevice reports with, above the highest
LogLevels == {INFO - 1, INFO, ERR, NOTICE + 1}

InitLog ==
    /\ NoContext
    /\ NoCtx
    /\ NoScene
    /\ m_mapCallbacks = <<>>
    /\ m_level \in LogLevels
    /\ levelSet = FALSE
    /\ logCall = [op |-> "none"]

NextLog ==
    \/ \E l \in LogLevels : SetLevel(l)
    \/ \E nWhich \in 0 .. MaxSinkIds - 1, callback \in Callbacks \cup {nullptr} :
           RegOutDevice(nWhich, callback)
    \/ \E nWhich \in 0 .. MaxSinkIds - 1, level \in LogLevels : OutMsg(nWhich, level)

SpecLog == InitLog /\ [][NextLog]_vars

----------------------------------------------------------------------------
(* vulkan7 from the construction of its context: initContext, one model
   loaded, the draw loop, cleanupContext *)

\* the most materials of a model file
MaxMaterials == 2

\* the diffuse texture of a material: none, or one of two files
TextureNames == {"", "body.png", "blades.png"}

InitScene ==
    /\ variant = "vulkan7"
    /\ deviceList = OneOf(SharedFamilyDevice)
    /\ surfaceCapabilities = DoubleBuffered
    /\ m_device_physical = nullptr
    /\ pc = "constructed"
    /\ thrown = ""
    /\ call = [op |-> "none"]
    /\ ContextConstructed
    /\ createdObjects = <<>>
    /\ NoCtx
    /\ NoLogger
    /\ NoScene

\* the meshes of a model file with n materials, each by its material: no
\* mesh, one mesh per material in either order, or one mesh of the last
\* material
MeshLayouts(n) ==
    IF n = 0 THEN {<<>>}
    ELSE {<<>>, [k \in 0 .. n - 1 |-> k], [k \in 0 .. n - 1 |-> n - 1 - k], OneOf(n - 1)}

NextScene ==
    \/ NextRun
    \/ /\ Initialised
       /\ meshModelCall.op = "none"
       /\ \E textureNames \in Vectors(TextureNames, MaxMaterials),
             loaded \in BOOLEAN, failAt \in -1 .. MaxMaterials - 1,
             meshesLoaded \in BOOLEAN :
              \E materialIndices \in MeshLayouts(Size(textureNames)) :
                  CreateMeshModel(textureNames, materialIndices, loaded, failAt,
                                  meshesLoaded)

SpecScene == InitScene /\ [][NextScene]_vars

----------------------------------------------------------------------------
(* chooseSupportedFormat on a device with any support for the depth formats *)

\* the longest candidate list handed to chooseSupportedFormat
MaxFormats == 2

Formats == {VK_FORMAT_D32_SFLOAT_S8_UINT, VK_FORMAT_D32_SFLOAT, VK_FORMAT_D24_UNORM_S8_UINT}

\* what a device may report for one format
FormatSupport ==
    {[linearTilingFeatures |-> 0, optimalTilingFeatures |-> 0],
     [linearTilingFeatures |-> 0,
      optimalTilingFeatures |-> VK_FORMAT_FEATURE_DEPTH_STENCIL_ATTACHMENT_BIT],
     [linearTilingFeatures |-> VK_FORMAT_FEATURE_DEPTH_STENCIL_ATTACHMENT_BIT,
      optimalTilingFeatures |-> 0],
     [linearTilingFeatures |-> VK_FORMAT_FEATURE_DEPTH_STENCIL_ATTACHMENT_BIT,
      optimalTilingFeatures |-> VK_FORMAT_FEATURE_DEPTH_STENCIL_ATTACHMENT_BIT
                                    + VK_IMAGE_LAYOUT_COLOR_ATTACHMENT_OPTIMAL]}

InitFormat ==
    /\ NoContext
    /\ NoCtx
    /\ NoLogger
    /\ formatProperties \in [Formats -> FormatSupport]
    /\ formatCall = [op |-> "none"]
    /\ m_samplerDescriptorSets = <<>>
    /\ m_modelList = <<>>
    /\ meshModelCall = [op |-> "none"]
    /\ recordCall = [op |-> "none"]

NextFormat ==
    \E formats \in Vectors(Formats, MaxFormats),
       tiling \in {VK_IMAGE_TILING_LINEAR, VK_IMAGE_TILING_OPTIMAL},
       flags \in {VK_FORMAT_FEATURE_DEPTH_STENCIL_ATTACHMENT_BIT,
                  VK_IMAGE_LAYOUT_COLOR_ATTACHMENT_OPTIMAL} :
        ChooseSupportedFormat(formats, tiling, flags)

SpecFormat == InitFormat /\ [][NextFormat]_vars

----------------------------------------------------------------------------
(* Properties *)

Min(S) == CHOOSE x \in S : \A y \in S : x <= y
Max(S) == CHOOSE x \in S : \A y \in S : x >= y
FirstOf(S) == IF S = {} THEN -1 ELSE Min(S)
LastOf(S) == IF S = {} THEN -1 ELSE Max(S)
Range(v) == {v[k] : k \in DOMAIN v}

\* bit is a power of two
HasBit(n, bit) == (n \div bit) % 2 = 1
QueueBits == {1, 2, 4, 8, 16, 32, 64, 128, 256}
Covers(flags, requested) == \A b \in QueueBits : HasBit(requested, b) => HasBit(flags, b)

GraphicsFamilies(dev) ==
    {k \in DOMAIN dev.queueFamilyList :
        /\ dev.queueFamilyList[k].queueCount > 0
        /\ HasBit(dev.queueFamilyList[k].queueFlags, VK_QUEUE_GRAPHICS_BIT)}

PresentationFamilies(dev) ==
    {k \in DOMAIN dev.queueFamilyList :
        /\ dev.queueFamilyList[k].queueCount > 0
        /\ dev.queueFamilyList[k].presentationSupport}

\* the families at which both kinds have been seen
BothSeenAt(dev) ==
    {k \in DOMAIN dev.queueFamilyList :
        /\ \E g \in GraphicsFamilies(dev) : g <= k
        /\ \E q \in PresentationFamilies(dev) : q <= k}

\* the last family the scan looks at
StopIndex(dev) ==
    IF BothSeenAt(dev) = {} THEN Size(dev.queueFamilyList) - 1 ELSE Min(BothSeenAt(dev))

RequiredExtensionsPresent(dev) ==
    \A r \in Range(deviceExtensions) : \E k \in DOMAIN dev.extensions : dev.extensions[k] = r

SuitableIndices ==
    {k \in DOMAIN deviceList : checkDeviceSuitable(variant, deviceList[k]).ret}

Probed == deviceList[call.dev]

\* C1: getPhysicalDevice selects the suitable device with the lowest
\* enumeration index: with devices 0 and 2 suitable it selects 0, never 2.
C1_FirstSuitableSelected ==
    pc = "physical" =>
        /\ SuitableIndices # {}
        /\ m_device_physical = Handle(Min(SuitableIndices))

W1_ZeroAndTwoSuitable ==
    /\ pc = "physical"
    /\ Size(deviceList) = 3
    /\ SuitableIndices = {0, 2}
    /\ m_device_physical = Handle(0)

\* C3 as stated: graphicsFamily is the first graphics family and
\* presentationFamily the first presentation family of the device.
X3_FirstFamiliesReported ==
    call.op = "getQueueFamilies" =>
        /\ call.graphicsFamily = FirstOf(GraphicsFamilies(Probed))
        /\ call.presentationFamily = FirstOf(PresentationFamilies(Probed))

\* C3 amended: the scan goes in enumerated order and stops at the first family
\* by which both a graphics and a presentation family have been seen (or at
\* the end); graphicsFamily is the last graphics family scanned and
\* presentationFamily the last presentation family scanned, -1 if none.
C3_LastScannedFamiliesReported ==
    call.op = "getQueueFamilies" =>
        /\ call.graphicsFamily =
              LastOf({k \in GraphicsFamilies(Probed) : k <= StopIndex(Probed)})
        /\ call.presentationFamily =
              LastOf({k \in PresentationFamilies(Probed) : k <= StopIndex(Probed)})
        /\ call.broke = (BothSeenAt(Probed) # {})
        /\ call.broke => call.i = StopIndex(Probed)
        /\ ~call.broke => call.i = Size(Probed.queueFamilyList)

W3_LaterGraphicsFamilyReported ==
    /\ call.op = "getQueueFamilies"
    /\ call.graphicsFamily = 1
    /\ call.presentationFamily = 1
    /\ 0 \in GraphicsFamilies(Probed)

\* C4: checkDeviceSuitable returns true exactly when the queue-family indices
\* are both resolved, every required extension is present, the format list and
\* the presentation-mode list are non-empty and, in vulkan7, samplerAnisotropy
\* is supported.
C4_SuitableIffAllChecksPass ==
    call.op = "checkDeviceSuitable" =>
        call.ret = (/\ GraphicsFamilies(Probed) # {}
                    /\ PresentationFamilies(Probed) # {}
                    /\ RequiredExtensionsPresent(Probed)
                    /\ Probed.formatCount > 0
                    /\ Probed.presentationCnt > 0
                    /\ (variant = "vulkan7" => Probed.samplerAnisotropy))

W4_SuitableDeviceAccepted ==
    /\ call.op = "checkDeviceSuitable"
    /\ call.ret
    /\ variant = "vulkan7"
    /\ Size(Probed.extensions) = 2

\* C6: checkDeviceExtensionSupport returns true if and only if every required
\* device extension name equals, character for character, a name in the
\* device's extension list.
C6_ExtensionsAllPresent ==
    call.op = "checkDeviceExtensionSupport" =>
        call.ret = RequiredExtensionsPresent(Probed)

W6_AllPlusExtrasAccepted ==
    /\ call.op = "checkDeviceExtensionSupport"
    /\ call.ret
    /\ Probed.extensions[0] = NAME_LONG
    /\ Probed.extensions[1] = VK_KHR_SWAPCHAIN_EXTENSION_NAME

\* C7: a device whose extension check passed but whose presentation-mode list
\* or format list is empty is rejected, and the swapchain check passes only
\* when the extension check passed.
C7_EmptySwapChainRejected ==
    call.op = "checkDeviceSuitable" =>
        /\ (call.extensionsSupported
              /\ (Probed.presentationCnt = 0 \/ Probed.formatCount = 0)) => ~call.ret
        /\ call.swapChainValid => call.extensionsSupported

W7_NoPresentationModes ==
    /\ call.op = "checkDeviceSuitable"
    /\ call.extensionsSupported
    /\ call.indicesValid
    /\ Probed.presentationCnt = 0
    /\ Probed.formatCount > 0
    /\ ~call.ret

\* C8 as stated: a device with a family that supports both graphics and
\* presentation gets the same index for both.
X8_SharedFamilySameIndex ==
    (call.op = "getQueueFamilies"
        /\ GraphicsFamilies(Probed) \cap PresentationFamilies(Probed) # {})
    => call.graphicsFamily = call.presentationFamily

\* C8 amended: when both indices are resolved they are equal exactly when the
\* family at which the scan stops supports both graphics and presentation; a
\* shared family after that one is not looked at.
C8_SameIndexIffStopFamilyShared ==
    (call.op = "getQueueFamilies" /\ BothSeenAt(Probed) # {})
    => ((call.graphicsFamily = call.presentationFamily)
          = (StopIndex(Probed) \in GraphicsFamilies(Probed) \cap PresentationFamilies(Probed)))

W8_SharedFamilyReported ==
    /\ call.op = "getQueueFamilies"
    /\ GraphicsFamilies(Probed) \cap PresentationFamilies(Probed) = {1}
    /\ 0 \in GraphicsFamilies(Probed)
    /\ call.graphicsFamily = 1
    /\ call.presentationFamily = 1

\* the checks of checkDeviceSuitable, read off the device
PassesChecks(v, dev) ==
    /\ GraphicsFamilies(dev) # {}
    /\ PresentationFamilies(dev) # {}
    /\ RequiredExtensionsPresent(dev)
    /\ dev.formatCount > 0
    /\ dev.presentationCnt > 0
    /\ (v = "vulkan7" => dev.samplerAnisotropy)

\* C11 as stated: in the checkDeviceSuitable-based variants a device of type
\* other is rejected and never selected by getPhysicalDevice.
X11_OtherRejectedNeverSelected ==
    /\ (call.op = "checkDeviceSuitable"
          /\ Probed.deviceType = VK_PHYSICAL_DEVICE_TYPE_OTHER) => ~call.ret
    /\ pc = "physical" =>
          deviceList[m_device_physical - 1].deviceType # VK_PHYSICAL_DEVICE_TYPE_OTHER

\* C11 amended: checkDeviceSuitable does not look at the device type; a
\* device of type other is accepted exactly when it passes the queue-family,
\* extension, swapchain and (vulkan7) anisotropy checks, and getPhysicalDevice
\* selects it when no device enumerated before it passes them.
C11_OtherJudgedByChecksAlone ==
    /\ (call.op = "checkDeviceSuitable"
          /\ Probed.deviceType = VK_PHYSICAL_DEVICE_TYPE_OTHER)
       => call.ret = PassesChecks(variant, Probed)
    /\ pc = "physical" =>
          \A k \in DOMAIN deviceList :
              (/\ deviceList[k].deviceType = VK_PHYSICAL_DEVICE_TYPE_OTHER
               /\ PassesChecks(variant, deviceList[k])
               /\ \A j \in 0 .. (k - 1) : ~PassesChecks(variant, deviceList[j]))
              => m_device_physical = Handle(k)

W11_OtherDeviceSelected ==
    /\ pc = "physical"
    /\ Size(deviceList) = 2
    /\ ~PassesChecks(variant, deviceList[0])
    /\ deviceList[1].deviceType = VK_PHYSICAL_DEVICE_TYPE_OTHER
    /\ m_device_physical = Handle(1)

\* getPhysicalDevice has run
SelectionRan ==
    \/ pc = "physical"
    \/ pc = "failed" /\ thrown \in {"Can't find GPUs that support Vulkan Instance",
                                     "No suitalbe physical device found"}

\* C12 as stated: when no device is suitable getPhysicalDevice returns with
\* the null handle as its failure report and does not throw.
X12_NullHandleReturnedNothingThrown ==
    (SelectionRan /\ SuitableIndices = {}) =>
        /\ m_device_physical = nullptr
        /\ thrown = ""

\* C12 amended: when no device is suitable getPhysicalDevice leaves
\* m_device.physical null and reports the failure by throwing
\* std::runtime_error, which initContext catches to return EXIT_FAILURE; it
\* never returns normally with a null handle.
C12_SelectionFailureIsThrown ==
    /\ (SelectionRan /\ SuitableIndices = {}) =>
          /\ m_device_physical = nullptr
          /\ pc = "failed"
          /\ thrown = IF Size(deviceList) = 0
                      THEN "Can't find GPUs that support Vulkan Instance"
                      ELSE "No suitalbe physical device found"
    /\ pc = "physical" => m_device_physical # nullptr

W12_NoneSuitableThrown ==
    /\ pc = "failed"
    /\ Size(deviceList) = 2
    /\ SuitableIndices = {}
    /\ m_device_physical = nullptr
    /\ thrown = "No suitalbe physical device found"

(* chap01/module1 *)

\* findSuitableDevice has run and `device` holds what it returned
Returned == pcCtx # "constructed" /\ res # VK_ERROR_INCOMPATIBLE_DRIVER

TypeRequested(dev) ==
    \/ dev.deviceType = VK_PHYSICAL_DEVICE_TYPE_INTEGRATED_GPU
         /\ BitAnd(properties.type, VK_PHYSICAL_DEVICE_TYPE_INTEGRATED_GPU) # 0
    \/ dev.deviceType = VK_PHYSICAL_DEVICE_TYPE_DISCRETE_GPU
         /\ BitAnd(properties.type, VK_PHYSICAL_DEVICE_TYPE_DISCRETE_GPU) # 0
    \/ dev.deviceType = VK_PHYSICAL_DEVICE_TYPE_VIRTUAL_GPU
         /\ BitAnd(properties.type, VK_PHYSICAL_DEVICE_TYPE_VIRTUAL_GPU) # 0
    \/ dev.deviceType = VK_PHYSICAL_DEVICE_TYPE_CPU
         /\ BitAnd(properties.type, VK_PHYSICAL_DEVICE_TYPE_CPU) # 0

OpsSupported(dev) ==
    \E q \in DOMAIN dev.queueProperties : Covers(dev.queueProperties[q].queueFlags, properties.ops)

Qualifying ==
    {k \in DOMAIN m_physicalDevices :
        TypeRequested(m_physicalDevices[k]) /\ OpsSupported(m_physicalDevices[k])}

\* C2: findSuitableDevice returns the lowest index among the devices that
\* pass the type filter and the queue-operation check.
X2_LowestQualifyingReturned ==
    (Returned /\ Qualifying # {}) => device = Min(Qualifying)

\* C5: a type-candidate is accepted as operation-suitable if and only if one
\* of its queue families carries every requested operation bit; {graphics,
\* transfer} satisfies {graphics} and {graphics, transfer}, not {graphics,
\* compute}.
C5_AcceptedIffFamilyCoversRequest ==
    \A c \in DOMAIN canidateDevs :
        (canidateDevs[c] \in Range(found)) = OpsSupported(m_physicalDevices[canidateDevs[c]])

W5_GraphicsTransferNotGraphicsCompute ==
    /\ Returned
    /\ Size(m_physicalDevices) = 1
    /\ m_physicalDevices[0].queueProperties = OneOf(CtxFamily(GraphicsTransfer))
    /\ properties.ops = GraphicsCompute
    /\ canidateDevs = OneOf(0)
    /\ found = <<>>

\* C9: a discrete device is placed in the candidate list if and only if the
\* requested type mask has the discrete bit set.
C9_DiscreteCandidateIffBitRequested ==
    Returned =>
        \A k \in DOMAIN m_physicalDevices :
            m_physicalDevices[k].deviceType = VK_PHYSICAL_DEVICE_TYPE_DISCRETE_GPU
            => ((k \in Range(canidateDevs))
                  = HasBit(properties.type, VK_PHYSICAL_DEVICE_TYPE_DISCRETE_GPU))

W9_DiscreteCandidate ==
    /\ Returned
    /\ properties.type = 3
    /\ \E k \in DOMAIN m_physicalDevices :
          /\ m_physicalDevices[k].deviceType = VK_PHYSICAL_DEVICE_TYPE_DISCRETE_GPU
          /\ k \in Range(canidateDevs)

\* C10: findSuitableDevice never returns the index of a device of type other.
C10_OtherNeverReturned ==
    Returned =>
        /\ \A k \in DOMAIN m_physicalDevices :
              m_physicalDevices[k].deviceType = VK_PHYSICAL_DEVICE_TYPE_OTHER => device # k
        /\ \A k \in Range(canidateDevs) \cup Range(found) :
              m_physicalDevices[k].deviceType # VK_PHYSICAL_DEVICE_TYPE_OTHER

W10_OtherSkipped ==
    /\ Returned
    /\ Size(m_physicalDevices) = 3
    /\ m_physicalDevices[0].deviceType = VK_PHYSICAL_DEVICE_TYPE_OTHER
    /\ m_physicalDevices[2].deviceType = VK_PHYSICAL_DEVICE_TYPE_OTHER
    /\ properties.type = 7
    /\ properties.ops = 0
    /\ device = 1

\* C26: a device is a type-candidate only if its own type is one the request
\* names: under a request made of the integrated and discrete values alone
\* (1, 2 or 1 | 2) no virtual-GPU or CPU device is a candidate, and no device
\* is in the candidate list twice.
X26_CandidateOfARequestedType ==
    Returned =>
        /\ properties.type \in {VK_PHYSICAL_DEVICE_TYPE_INTEGRATED_GPU,
                                VK_PHYSICAL_DEVICE_TYPE_DISCRETE_GPU,
                                VK_PHYSICAL_DEVICE_TYPE_INTEGRATED_GPU
                                    + VK_PHYSICAL_DEVICE_TYPE_DISCRETE_GPU} =>
              \A k \in Range(canidateDevs) :
                  m_physicalDevices[k].deviceType \in
                      {VK_PHYSICAL_DEVICE_TYPE_INTEGRATED_GPU,
                       VK_PHYSICAL_DEVICE_TYPE_DISCRETE_GPU}
        /\ \A i, j \in DOMAIN canidateDevs :
              canidateDevs[i] = canidateDevs[j] => i = j

\* C14: findSuitableDevice returns the same sentinel -1 whether no device is
\* enumerated, no device has a requested type, or devices of a requested type
\* exist but none has a queue family with the requested operations; init turns
\* the sentinel into VK_ERROR_INITIALIZATION_FAILED.
C14_SentinelInEveryFailure ==
    (pcCtx # "idle" /\ Returned) =>
        /\ Size(m_physicalDevices) = 0 => device = UINT32_MINUS_ONE
        /\ (\A k \in DOMAIN m_physicalDevices : ~TypeRequested(m_physicalDevices[k]))
              => device = UINT32_MINUS_ONE
        /\ (\A k \in DOMAIN m_physicalDevices :
                TypeRequested(m_physicalDevices[k]) => ~OpsSupported(m_physicalDevices[k]))
              => device = UINT32_MINUS_ONE
        /\ device = UINT32_MINUS_ONE =>
              (res = VK_ERROR_INITIALIZATION_FAILED /\ pcCtx = "init_failed")

W14_TypeMatchesNoQueueFamily ==
    /\ pcCtx = "init_failed"
    /\ Returned
    /\ Size(m_physicalDevices) = 2
    /\ \E k \in DOMAIN m_physicalDevices : TypeRequested(m_physicalDevices[k])
    /\ \A k \in DOMAIN m_physicalDevices : ~OpsSupported(m_physicalDevices[k])
    /\ device = UINT32_MINUS_ONE
    /\ res = VK_ERROR_INITIALIZATION_FAILED

(* the life of one vkContext *)

\* the indices a scan of dev resolves, read off the device
ResolvedGraphics(dev) == LastOf({k \in GraphicsFamilies(dev) : k <= StopIndex(dev)})
ResolvedPresentation(dev) == LastOf({k \in PresentationFamilies(dev) : k <= StopIndex(dev)})

\* C15: every getQueueFamilies call on the selected device resolves the same
\* graphics and presentation indices: the families the logical device's queues
\* were created and fetched for are the families the swapchain's sharing mode
\* is decided on and the family the command pool is created for.
C15_SameFamiliesInEveryStep ==
    m_device_physical # nullptr =>
        LET g == ResolvedGraphics(SelectedDevice)
            q == ResolvedPresentation(SelectedDevice)
        IN  /\ g >= 0 /\ q >= 0
            /\ deviceCreateInfo.op # "none" => deviceCreateInfo.queueFamilies = {g, q}
            /\ m_device_logical # nullptr =>
                  /\ m_graphicsQueue.queueFamilyIndex = g
                  /\ m_presentationQueue.queueFamilyIndex = q
            /\ swapChainCreateInfo.op # "none" =>
                  /\ (swapChainCreateInfo.imageSharingMode = VK_SHARING_MODE_CONCURRENT)
                        = (g # q)
                  /\ g # q => swapChainCreateInfo.pQueueFamilyIndices = <<g, q>>
                  /\ g = q => swapChainCreateInfo.queueFamilyIndexCount = 0
            /\ poolInfo.op # "none" =>
                  /\ poolInfo.queueFamilyIndex = g
                  /\ poolInfo.queueFamilyIndex = m_graphicsQueue.queueFamilyIndex
                  /\ poolInfo.queueFamilyIndex \in deviceCreateInfo.queueFamilies

W15_PoolOnSeparateGraphicsFamily ==
    /\ poolInfo.op = "vkCreateCommandPool"
    /\ Size(deviceList) = 2
    /\ m_device_physical = Handle(1)
    /\ swapChainCreateInfo.imageSharingMode = VK_SHARING_MODE_CONCURRENT
    /\ m_graphicsQueue.queueFamilyIndex = 0
    /\ m_presentationQueue.queueFamilyIndex = 1
    /\ poolInfo.queueFamilyIndex = 0

X18_RequestedCountWithinSurfaceLimits ==
    swapChainCreateInfo.op = "vkCreateSwapchainKHR" =>
        LET min == surfaceCapabilities.minImageCount
            max == surfaceCapabilities.maxImageCount
        IN  /\ swapChainCreateInfo.minImageCount =
                   (IF max # 0 /\ max < min + 1 THEN max ELSE min + 1)
            /\ swapChainCreateInfo.minImageCount >= min

(* the draw loop *)

\* C19: whenever draw() re-records, rewrites or resubmits the command
\* buffer (and uniform buffer) of the swapchain image the acquire step
\* returned, the fence of the previous submission that used that image
\* has been waited on, whichever image index was returned.
X19_ImageReusedOnlyAfterItsFenceWaited ==
    lastDraw.op = "draw" => lastDraw.unwaited = -1

X17_SinkInvokedIffRegisteredAndSevere ==
    logCall.op = "outMsg" =>
        /\ (logCall.key # -1) =
               (/\ logCall.registered # nullptr
                /\ (logCall.configured => logCall.minimum <= logCall.level))
        /\ logCall.key \in {-1, logCall.nWhich}
        /\ logCall.key # -1 => logCall.sink = logCall.registered

(* initContext and the objects it creates *)

\* C21: initContext makes its calls in one fixed order and starts a call
\* only if every earlier call completed without error: no call after one in
\* which a Vulkan function reported an error has completed, initContext has
\* not returned EXIT_SUCCESS, and nothing was drawn.
X21_NoStepAfterAFailedStep ==
    pc \notin {"failed", "idle"} =>
        \A label \in creationErrors :
            /\ StepIndex(variant, pc) <= StepIndex(variant, label)
            /\ ~Initialised
            /\ lastDraw.op = "none"

\* C23: a createShaderModule whose vkCreateShaderModule failed has thrown
\* and has returned no handle, and initContext has failed.
X23_ShaderModuleFailureThrows ==
    (shaderModule.op = "createShaderModule" /\ shaderModule.result # VK_SUCCESS) =>
        /\ shaderModule.threw
        /\ ~shaderModule.returned
        /\ pc = "failed"

\* the objects that outlive initContext: everything but the shader
\* modules, which createGraphicsPipeline destroys itself
Persisting(q) == SelectSeq(q, LAMBDA o : o \notin Range(ShaderModules(variant)))

Reverse(q) == [k \in 1 .. Len(q) |-> q[Len(q) + 1 - k]]

\* C22: after a start-up without errors, cleanupContext has destroyed the
\* objects initContext left behind in exactly the reverse of the order in
\* which they were created (last created first, the instance last).
X22_DestroyedInReverseOfCreation ==
    (pc = "cleaned" /\ creationErrors = {}) =>
        Persisting(destroyedObjects) = Reverse(Persisting(createdObjects))

\* how often an object occurs in a list of objects
Occurrences(q, o) == Cardinality({k \in 1 .. Len(q) : q[k] = o})

\* main is about to return, or the process has ended on an uncaught
\* exception: no Vulkan call follows
ProgramOver == pc \in {"failed", "cleaned", "terminated"}

\* C24: when the program is over, whether initContext failed part-way or
\* the run went through, every object created during the run has been
\* destroyed exactly once.
X24_EveryObjectDestroyedOnce ==
    ProgramOver =>
        \A o \in Range(createdObjects) : Occurrences(destroyedObjects, o) = 1

\* C25: vkCreateDevice is asked for exactly one queue per distinct resolved
\* family index (one entry when graphics and presentation coincide, two when
\* they differ, no family twice), and the swapchain is created with
\* concurrent sharing over both families exactly when the two indices differ
\* and with exclusive sharing and no family list otherwise.
C25_OneQueuePerDistinctFamily ==
    m_device_physical # nullptr =>
        LET g == ResolvedGraphics(SelectedDevice)
            q == ResolvedPresentation(SelectedDevice)
            infos == deviceCreateInfo.pQueueCreateInfos
        IN  /\ deviceCreateInfo.op = "vkCreateDevice" =>
                  /\ deviceCreateInfo.queueCreateInfoCount = Len(infos)
                  /\ Len(infos) = (IF g = q THEN 1 ELSE 2)
                  /\ {infos[k].queueFamilyIndex : k \in 1 .. Len(infos)} = {g, q}
                  /\ \A k \in 1 .. Len(infos) : infos[k].queueCount = 1
                  /\ \A j, k \in 1 .. Len(infos) :
                         infos[j].queueFamilyIndex = infos[k].queueFamilyIndex => j = k
            /\ swapChainCreateInfo.op = "vkCreateSwapchainKHR" =>
                  IF g # q
                  THEN /\ swapChainCreateInfo.imageSharingMode = VK_SHARING_MODE_CONCURRENT
                       /\ swapChainCreateInfo.queueFamilyIndexCount = 2
                       /\ swapChainCreateInfo.pQueueFamilyIndices = <<g, q>>
                  ELSE /\ swapChainCreateInfo.imageSharingMode = VK_SHARING_MODE_EXCLUSIVE
                       /\ swapChainCreateInfo.queueFamilyIndexCount = 0
                       /\ swapChainCreateInfo.pQueueFamilyIndices = <<>>

\* a device whose two indices coincide got one queue entry and an exclusive
\* swapchain
W25_SharedFamilyOneQueueExclusive ==
    /\ deviceCreateInfo.op = "vkCreateDevice"
    /\ swapChainCreateInfo.op = "vkCreateSwapchainKHR"
    /\ m_graphicsQueue.queueFamilyIndex = m_presentationQueue.queueFamilyIndex
    /\ deviceCreateInfo.queueCreateInfoCount = 1
    /\ swapChainCreateInfo.imageSharingMode = VK_SHARING_MODE_EXCLUSIVE

(* chooseSupportedFormat *)

FormatFeatureBits == {1, 2, 4, 8, 16, 32, 64, 128, 256, 512, 1024}

\* the features a device reports for a format under a tiling
TilingFeatures(format, tiling) ==
    IF tiling = VK_IMAGE_TILING_LINEAR
    THEN formatProperties[format].linearTilingFeatures
    ELSE formatProperties[format].optimalTilingFeatures

\* the positions of the candidate list whose format has every requested flag
QualifyingFormats(formats, tiling, flags) ==
    {k \in DOMAIN formats :
        \A b \in FormatFeatureBits :
            HasBit(flags, b) => HasBit(TilingFeatures(formats[k], tiling), b)}

\* C27: chooseSupportedFormat returns the first format of the candidate list
\* whose features for the requested tiling include every requested flag, and
\* throws only when no format of the list has them.
X27_FirstQualifyingFormatReturned ==
    formatCall.op = "chooseSupportedFormat" =>
        LET qualifying == QualifyingFormats(formatCall.formats, formatCall.tiling,
                                            formatCall.flags)
        IN  IF qualifying = {}
            THEN formatCall.result.threw
            ELSE /\ ~formatCall.result.threw
                 /\ formatCall.result.returned
                 /\ formatCall.result.format = formatCall.formats[Min(qualifying)]

(* textures and models *)

\* C28: every texture id createMeshModel gives a mesh is an index into
\* m_samplerDescriptorSets when recordcommands looks it up: set 0 is the
\* default texture created at the end of initContext, a material without a
\* texture maps to 0, and any other material maps to the set createTexture
\* made for its file.
C28_TextureIdsIndexSamplerSets ==
    /\ recordCall.op = "recordcommands" =>
           \A n \in DOMAIN recordCall.lookups :
               /\ recordCall.lookups[n] >= 0
               /\ recordCall.lookups[n] < Size(m_samplerDescriptorSets)
    /\ \A j \in DOMAIN m_modelList : \A k \in DOMAIN m_modelList[j] :
           /\ m_modelList[j][k] \in DOMAIN m_samplerDescriptorSets
           /\ m_samplerDescriptorSets[0] = DefaultTexture
    /\ (meshModelCall.op = "createMeshModel" /\ meshModelCall.returned) =>
           /\ \A i \in DOMAIN meshModelCall.textureNames :
                  IF meshModelCall.textureNames[i] = ""
                  THEN meshModelCall.matToTex[i] = 0
                  ELSE /\ meshModelCall.matToTex[i] \in DOMAIN m_samplerDescriptorSets
                       /\ meshModelCall.matToTex[i] # 0
                       /\ m_samplerDescriptorSets[meshModelCall.matToTex[i]]
                              = meshModelCall.textureNames[i]
           /\ \A k \in DOMAIN meshModelCall.materialIndices :
                  m_modelList[meshModelCall.modelId][k]
                      = meshModelCall.matToTex[meshModelCall.materialIndices[k]]

\* a model with an untextured and a textured material has been drawn
W28_DefaultAndOwnTextureLookedUp ==
    /\ recordCall.op = "recordcommands"
    /\ Size(recordCall.lookups) = 2
    /\ recordCall.lookups[0] = 0
    /\ recordCall.lookups[1] = 1
    /\ Size(m_samplerDescriptorSets) = 2
    /\ m_samplerDescriptorSets[1] = "body.png"
    /\ meshModelCall.textureNames[0] = ""

(* start-up as a whole *)

\* getPhysicalDevice has thrown
SelectionFailed ==
    /\ pc = "failed"
    /\ thrown \in {"Can't find GPUs that support Vulkan Instance",
                    "No suitalbe physical device found"}

\* vkCtx::init has returned the failure of findSuitableDevice to main
CtxSelectionFailed == pcCtx # "idle" /\ Returned /\ Qualifying = {}

\* C13: once device selection has failed (no device enumerated, or none
\* suitable) start-up is over: no logical device exists, no later
\* initialisation call has been made, no draw() has run, and from then on
\* nothing of the context changes, so selection is not tried again.
C13_SelectionFailureEndsStartup ==
    /\ [](SelectionFailed =>
            /\ m_device_physical = nullptr
            /\ m_device_logical = nullptr
            /\ deviceCreateInfo.op = "none"
            /\ swapChainCreateInfo.op = "none"
            /\ poolInfo.op = "none"
            /\ m_drawFences = <<>>
            /\ lastDraw.op = "none")
    /\ [](CtxSelectionFailed =>
            /\ pcCtx = "init_failed"
            /\ res # VK_SUCCESS
            /\ m_pLogicalDevice = nullptr)
    /\ [][(SelectionFailed => UNCHANGED <<contextVars, runVars>>)
           /\ (CtxSelectionFailed => UNCHANGED ctxVars)]_vars

W13_NoneSuitableNothingCreated ==
    /\ SelectionFailed
    /\ Size(deviceList) = 2
    /\ m_device_logical = nullptr
    /\ lastDraw.op = "none"

====
